---- MODULE Spec2Model ----
(***************************************************************************)
(* MCQ flashcards: the PDF import pipeline (services/geminiService),       *)
(* the orchestrating import handler (App.tsx) and the card store           *)
(* (hooks/useFlashcards.ts), as a state machine.                           *)
(*                                                                         *)
(* JavaScript runs one macrotask at a time and drains the promise          *)
(* continuations (microtasks) it queued before the next macrotask starts.  *)
(* An action below is therefore one macrotask (a UI event, a FileReader    *)
(* event, the settlement of the network request) together with every       *)
(* promise continuation it triggers.                                       *)
(***************************************************************************)
EXTENDS Integers, Sequences, FiniteSets, TLC

VARIABLES
    apiKey,             \* process.env.API_KEY is set (ai # null, apiKeyAvailable)
    flashcards,         \* useFlashcards: the in-memory collection
    storage,            \* localStorage[STORAGE_KEY]
    calls,              \* the invocations of extractMCQsFromPDF so far
    controllerRef,      \* pdfImportAbortControllerRef.current: 0 (null) or a call
    isImportingPdf,     \* App state
    processingMessage,  \* App state
    generated,          \* the settled result of the last generateMCQWithGemini
    uuidCount,          \* cards built so far by the form and by generateMCQWithGemini
    loaded,             \* what localStorage.getItem gave the initializer at the last start
    writes,             \* calls of localStorage.setItem so far
    currentView,        \* App state: the view shown
    cardToEdit,         \* App state: <<>> (null) or <<card>>
    form,               \* the state of FlashcardForm (its initial state when not shown)
    deck,               \* the state of DeckView (its initial state when not shown)
    quiz                \* the state of QuizMode (its initial state when not shown)

vars == <<apiKey, flashcards, storage, calls, controllerRef, isImportingPdf,
          processingMessage, generated, uuidCount, loaded, writes,
          currentView, cardToEdit, form, deck, quiz>>

\* the view shown, the card under edit and the state of the views' components
ui == <<currentView, cardToEdit, form, deck, quiz>>

-----------------------------------------------------------------------------
(* Bounds of the model *)

MaxImports == 3     \* imports started through the App
MaxItems == 2       \* elements of a response array given to a direct call
MaxOps == 2         \* imports, form submissions and single generations of a session
MaxText == 3        \* characters of a response body given to a direct call
MaxOptions == 4     \* numOptions of a direct call of generateMCQWithGemini
MaxWrites == 3      \* writes after which the store is not used again
MaxSaves == 1       \* cards built by the form when the views are followed

-----------------------------------------------------------------------------
(* JavaScript values.  A string is a sequence of characters; a number n is *)
(* kept as 2n, so that halves (0.5, 1.5) are numbers that are not integers.*)

Undefined == [t |-> "undefined"]
Null == [t |-> "null"]
Str(s) == [t |-> "string", v |-> s]
Num(twice) == [t |-> "number", v |-> twice]
Whole(n) == Num(2 * n)
Arr(s) == [t |-> "array", v |-> s]
Obj(q, o, c, e, tp) ==
    [t |-> "object",
     v |-> [question |-> q, options |-> o, correctOptionIndex |-> c,
            explanation |-> e, topic |-> tp]]

\* x.key for the keys of a response item; reading a property of null or
\* undefined throws a TypeError (CanRead is FALSE)
CanRead(x) == x.t \notin {"undefined", "null"}
Get(x, key) == IF x.t = "object" THEN x.v[key] ELSE Undefined

\* ToBoolean
Truthy(x) ==
    CASE x.t = "undefined" -> FALSE
      [] x.t = "null" -> FALSE
      [] x.t = "string" -> Len(x.v) > 0
      [] x.t = "number" -> x.v # 0
      [] OTHER -> TRUE

IsSpace(c) == c \in {" ", "\n"}

RECURSIVE TrimStart(_)
TrimStart(s) ==
    IF s = <<>> THEN s
    ELSE IF IsSpace(Head(s)) THEN TrimStart(Tail(s)) ELSE s

RECURSIVE TrimEnd(_)
TrimEnd(s) ==
    IF s = <<>> THEN s
    ELSE IF IsSpace(s[Len(s)]) THEN TrimEnd(SubSeq(s, 1, Len(s) - 1)) ELSE s

\* String.prototype.trim
Trim(s) == TrimEnd(TrimStart(s))

\* crypto.randomUUID(): a fresh identifier.  The identifier names the
\* invocation that drew it (a call of extractMCQsFromPDF, or 0 for the form
\* and the single generation with their running count), the card and the
\* option (0 for the card itself), so no two draws are equal.
RandomUUID(owner, card, option) == <<owner, card, option>>

-----------------------------------------------------------------------------
(* Outcomes of the asynchronous service functions *)

NoError == [name |-> "none", message |-> "none", wrapped |-> FALSE]
Resolved(cards) == [kind |-> "resolved", error |-> NoError, cards |-> cards]
Rejected(name, message, wrapped) ==
    [kind |-> "rejected",
     error |-> [name |-> name, message |-> message, wrapped |-> wrapped],
     cards |-> <<>>]
Pending == [kind |-> "pending", error |-> NoError, cards |-> <<>>]

AbortError(message) == Rejected("AbortError", message, FALSE)

\* error instanceof DOMException && error.name === 'AbortError'
IsAbortError(outcome) ==
    outcome.kind = "rejected" /\ outcome.error.name = "AbortError"

(* What the extraction service sent back *)
NoResponse == [status |-> "none", value |-> Undefined]
JsonText(value) == [status |-> "json", value |-> value]
GarbageText == [status |-> "garbage", value |-> Undefined]
RequestError == [status |-> "failed", value |-> Undefined]

-----------------------------------------------------------------------------
(* extractMCQsFromPDF                                                      *)

\* One invocation of extractMCQsFromPDF(pdfFile, signal).  pc is where the
\* invocation is suspended; the fields after outcome record what it did;
\* seen is the flashcards of the render in which the caller was invoked.
NewCall(file, hasSignal, aborted, handled) ==
    [file |-> file, hasSignal |-> hasSignal, aborted |-> aborted,
     handled |-> handled, pc |-> "called", outcome |-> Pending,
     response |-> NoResponse,
     abortedAtEntry |-> hasSignal /\ aborted, abortedInRequest |-> FALSE,
     readStarted |-> FALSE, requested |-> FALSE, parsed |-> FALSE,
     appended |-> FALSE,
     seen |-> flashcards]

\* the aborted flag of a signal whose controller abort() is never called on
AbortedNever(call) == FALSE
\* signal.aborted, of the signal the call was given: the signal of the
\* controller that abort() is called on
Aborted(call) == call.aborted

\* signal?.aborted
SignalAborted(call) == call.hasSignal /\ Aborted(call)

Settle(call, outcome) == [call EXCEPT !.pc = "done", !.outcome = outcome]

\* the entry of extractMCQsFromPDF up to its first await
ExtractEnter(call, ai) ==
    IF ~ai
    THEN Settle(call, Rejected("Error", "Gemini API key not configured", FALSE))
    ELSE IF SignalAborted(call)
    THEN Settle(call, AbortError("Aborted before reading file"))
    ELSE [call EXCEPT !.pc = "encoding", !.readStarted = TRUE]

\* an abort that sets the flag of the signal and runs no listener
AbortFlagOnly(call) ==
    IF ~call.hasSignal \/ call.aborted THEN call
    ELSE [call EXCEPT !.aborted = TRUE, !.abortedInRequest = (call.pc = "request")]

\* AbortController.abort() on the call's signal: the first abort sets the
\* flag and runs the listeners; readFileAsBase64's listener rejects the read,
\* which extractMCQsFromPDF rethrows
AbortSignalOf(call) ==
    IF ~call.hasSignal \/ call.aborted THEN call
    ELSE IF call.pc = "encoding"
    THEN Settle([call EXCEPT !.aborted = TRUE], AbortError("Aborted"))
    ELSE [call EXCEPT !.aborted = TRUE,
                      !.abortedInRequest = (call.pc = "request")]

\* the FileReader finishes: onload with or without a base64 body, or onerror
ExtractEncoded(call, readOk) ==
    IF ~readOk
    THEN Settle(call, Rejected("Error", "Failed to read PDF file", FALSE))
    ELSE IF SignalAborted(call)
    THEN Settle(call, AbortError("Aborted after reading file, before API call"))
    ELSE [call EXCEPT !.pc = "request", !.requested = TRUE]

\* the validation of one response item: "TypeError", "skip" or "pass"
ItemCheck(item) ==
    IF ~CanRead(item) THEN "TypeError"
    ELSE LET question == Get(item, "question")
             options == Get(item, "options")
             index == Get(item, "correctOptionIndex")
         IN  IF ~Truthy(question) THEN "skip"
             ELSE IF options.t # "array" THEN "skip"
             ELSE IF \E j \in 1..Len(options.v) : options.v[j].t # "string"
             THEN "skip"
             ELSE IF index.t # "number" THEN "skip"
             ELSE IF index.v < 0 THEN "skip"
             ELSE IF index.v >= 2 * Len(options.v) THEN "skip"
             ELSE "pass"

\* x?.trim() || undefined : FALSE when the call throws
CanTrim(x) == x.t \in {"undefined", "null", "string"}
TrimOrUndefined(x) ==
    IF x.t = "string" /\ Trim(x.v) # <<>> THEN Str(Trim(x.v)) ELSE Undefined

\* item.options.map(optText => ({id: crypto.randomUUID(), text: optText}))
McqOptions(texts, owner, card) ==
    [j \in 1..Len(texts) |-> [id |-> RandomUUID(owner, card, j), text |-> texts[j]]]

\* mcqOptions[item.correctOptionIndex] is an element of the array
HasElement(arr, index) ==
    index.t = "number" /\ index.v % 2 = 0 /\ index.v >= 0 /\ index.v < 2 * Len(arr)

\* the object literal pushed for an item that passed the check
PromoteFirstOption(item, owner, card) ==
    LET mcqOptions == McqOptions(Get(item, "options").v, owner, card)
    IN  [id |-> RandomUUID(owner, card, 0),
         question |-> Get(item, "question"),
         options |-> mcqOptions,
         correctOptionId |-> mcqOptions[1].id,
         explanation |-> TrimOrUndefined(Get(item, "explanation")),
         topic |-> TrimOrUndefined(Get(item, "topic")),
         sourcePdfName |-> Undefined]

CanPromote(item) ==
    /\ HasElement(Get(item, "options").v, Get(item, "correctOptionIndex"))
    /\ CanTrim(Get(item, "explanation"))
    /\ CanTrim(Get(item, "topic"))

Promote(item, owner, card) ==
    LET mcqOptions == McqOptions(Get(item, "options").v, owner, card)
    IN  [id |-> RandomUUID(owner, card, 0),
         question |-> Get(item, "question"),
         options |-> mcqOptions,
         correctOptionId |-> mcqOptions[(Get(item, "correctOptionIndex").v \div 2) + 1].id,
         explanation |-> TrimOrUndefined(Get(item, "explanation")),
         topic |-> TrimOrUndefined(Get(item, "topic")),
         sourcePdfName |-> Undefined]

\* for (const item of extractedDataArray) { ... } return flashcards
RECURSIVE ProcessItems(_, _, _, _, _)
ProcessItems(items, k, flashcardsSoFar, aborted, owner) ==
    IF k > Len(items) THEN Resolved(flashcardsSoFar)
    ELSE IF aborted THEN AbortError("Aborted during processing of results")
    ELSE LET check == ItemCheck(items[k])
         IN  IF check = "TypeError" THEN Rejected("TypeError", "TypeError", FALSE)
             ELSE IF check = "skip"
             THEN ProcessItems(items, k + 1, flashcardsSoFar, aborted, owner)
             ELSE IF ~CanPromote(items[k])
             THEN Rejected("TypeError", "TypeError", FALSE)
             ELSE ProcessItems(items, k + 1,
                               Append(flashcardsSoFar, Promote(items[k], owner, k)),
                               aborted, owner)

\* a catch that wraps every error that is not an AbortError
OuterCatchWrapsAll(outcome) ==
    IF outcome.kind # "rejected" THEN outcome
    ELSE IF IsAbortError(outcome) THEN outcome
    ELSE Rejected("Error", outcome.error.message, TRUE)

\* the catch of the request/parse/validate block
OuterCatch(outcome) ==
    IF outcome.kind # "rejected" THEN outcome
    ELSE IF IsAbortError(outcome) THEN outcome
    ELSE IF outcome.error.message = "invalid JSON format" THEN outcome
    ELSE Rejected("Error", outcome.error.message, TRUE)

-----------------------------------------------------------------------------
(* The response text.  A text is a sequence of characters: the backtick,   *)
(* the newline, the space, a letter, a digit, the brackets, and ItemText,  *)
(* which stands for the whole text of one object literal (it starts with a *)
(* brace and ends with one, so no character class below tells it from the  *)
(* characters it abbreviates).                                             *)

\* the backtick character
Backtick == "backtick"
Fence == <<Backtick, Backtick, Backtick>>
ItemText == "{Q}"
\* the object ItemText is the text of
ItemOfText ==
    Obj(Str(<<"Q">>), Arr(<<Str(<<"A">>), Str(<<"B">>)>>), Whole(0), Undefined, Undefined)

\* \w
IsWord(c) == c \in {"j", "1"}

\* the rest of s after the longest run of \w at its start
RECURSIVE DropWord(_)
DropWord(s) ==
    IF s = <<>> THEN s
    ELSE IF IsWord(Head(s)) THEN DropWord(Tail(s)) ELSE s

\* a response text taken as it is
StripNothing(jsonStr) == jsonStr

\* const match = jsonStr.match(fenceRegex), where fenceRegex is, writing F for
\* three backticks, /^F(\w*)?\s*\n?(.*?)\n?\s*F$/s;
\* if (match && match[2]) jsonStr = match[2].trim();
\* The quantifiers before the group are greedy and never reach a backtick,
\* so the first match takes the longest run of \w, then the longest run of
\* \s; the group is lazy, so it ends where only \s is left before the
\* closing backticks.
StripFence(jsonStr) ==
    IF /\ Len(jsonStr) >= 6
       /\ SubSeq(jsonStr, 1, 3) = Fence
       /\ SubSeq(jsonStr, Len(jsonStr) - 2, Len(jsonStr)) = Fence
    THEN LET inner == SubSeq(jsonStr, 4, Len(jsonStr) - 3)
             group2 == TrimEnd(TrimStart(DropWord(inner)))
         IN  IF group2 # <<>> THEN Trim(group2) ELSE jsonStr
    ELSE jsonStr

\* the number written by a run of the digit 1
RECURSIVE Decimal(_)
Decimal(s) == IF s = <<>> THEN 0 ELSE 10 * Decimal(SubSeq(s, 1, Len(s) - 1)) + 1

\* JSON.parse(text) for the texts over these characters: a number, an
\* object literal, or an array of at most one value (there is no comma);
\* ok is FALSE when JSON.parse throws a SyntaxError
RECURSIVE JsonParse(_)
JsonParse(text) ==
    LET t == Trim(text)
    IN  IF t = <<>> THEN [ok |-> FALSE, value |-> Undefined]
        ELSE IF \A k \in 1..Len(t) : t[k] = "1"
        THEN [ok |-> TRUE, value |-> Whole(Decimal(t))]
        ELSE IF t = <<ItemText>> THEN [ok |-> TRUE, value |-> ItemOfText]
        ELSE IF Len(t) >= 2 /\ t[1] = "[" /\ t[Len(t)] = "]"
        THEN LET inner == Trim(SubSeq(t, 2, Len(t) - 1))
                 element == JsonParse(inner)
             IN  IF inner = <<>> THEN [ok |-> TRUE, value |-> Arr(<<>>)]
                 ELSE IF element.ok
                 THEN [ok |-> TRUE, value |-> Arr(<<element.value>>)]
                 ELSE [ok |-> FALSE, value |-> Undefined]
        ELSE [ok |-> FALSE, value |-> Undefined]

\* a response given by its text
RawText(text) == [status |-> "text", value |-> Undefined, text |-> text]

\* response.text.trim(), the fence stripped, JSON.parse: a response given by
\* its text becomes the value parsed from it or the failure of the parse; a
\* response given by its value stands for a text with no fence that parses
\* to that value
Decode(response) ==
    IF response.status # "text" THEN response
    ELSE LET parsed == JsonParse(StripFence(Trim(response.text)))
         IN  IF parsed.ok
             THEN [status |-> "json", value |-> parsed.value, text |-> response.text]
             ELSE [status |-> "garbage", value |-> Undefined, text |-> response.text]

\* the request settles: everything from the await to the return or throw
ExtractResponded(call, received, owner) ==
    LET response == IF received.status = "failed" \/ SignalAborted(call)
                    THEN received ELSE Decode(received)
        got == [call EXCEPT !.response = response]
    IN  IF response.status = "failed"
        THEN Settle(got, OuterCatch(Rejected("Error", "request failed", FALSE)))
        ELSE IF SignalAborted(call)
        THEN Settle(got, OuterCatch(AbortError("Aborted during or after API call")))
        ELSE IF response.status # "json"
        THEN Settle([got EXCEPT !.parsed = TRUE],
                    OuterCatch(Rejected("Error", "invalid JSON format", FALSE)))
        ELSE IF response.value.t # "array"
        THEN Settle([got EXCEPT !.parsed = TRUE],
                    OuterCatch(Rejected("Error", "Expected an array", FALSE)))
        ELSE Settle([got EXCEPT !.parsed = TRUE],
                    OuterCatch(ProcessItems(response.value.v, 1, <<>>,
                                            SignalAborted(call), owner)))

-----------------------------------------------------------------------------
(* generateMCQWithGemini                                                   *)

\* generateMCQWithGemini without the comparison of options.length with numOptions
GenerateMCQAnyLength(ai, response, topic, numOptions, count) ==
    IF ~ai THEN Rejected("Error", "Gemini API key not configured", FALSE)
    ELSE IF response.status = "failed"
    THEN Rejected("Error", "request failed", TRUE)
    ELSE IF response.status # "json"
    THEN Rejected("Error", "Failed to parse response from AI", TRUE)
    ELSE LET generatedData == response.value
             question == Get(generatedData, "question")
             options == Get(generatedData, "options")
             index == Get(generatedData, "correctOptionIndex")
         IN  IF ~CanRead(generatedData) THEN Rejected("Error", "TypeError", TRUE)
             ELSE IF \/ ~Truthy(question)
                     \/ options.t # "array"
                     \/ index.t # "number"
                     \/ index.v < 0
                     \/ index.v >= 2 * numOptions
             THEN Rejected("Error", "Invalid response structure", TRUE)
             ELSE IF ~HasElement(options.v, index) \/ ~CanTrim(Get(generatedData, "explanation"))
             THEN Rejected("Error", "TypeError", TRUE)
             ELSE LET newOptions == McqOptions(options.v, 0, count)
                  IN  Resolved(<<[question |-> question,
                                  options |-> newOptions,
                                  correctOptionId |-> newOptions[(index.v \div 2) + 1].id,
                                  topic |-> IF Truthy(Get(generatedData, "topic"))
                                            THEN Get(generatedData, "topic")
                                            ELSE Str(topic),
                                  explanation |->
                                      TrimOrUndefined(Get(generatedData, "explanation"))]>>)

\* the settled result of generateMCQWithGemini(topic, numOptions) for one
\* response; the card it resolves with has no id and no source (a Partial)
GenerateMCQ(ai, response, topic, numOptions, count) ==
    IF ~ai THEN Rejected("Error", "Gemini API key not configured", FALSE)
    ELSE IF response.status = "failed"
    THEN Rejected("Error", "request failed", TRUE)
    ELSE IF response.status # "json"
    THEN Rejected("Error", "Failed to parse response from AI", TRUE)
    ELSE LET generatedData == response.value
             question == Get(generatedData, "question")
             options == Get(generatedData, "options")
             index == Get(generatedData, "correctOptionIndex")
         IN  IF ~CanRead(generatedData) THEN Rejected("Error", "TypeError", TRUE)
             ELSE IF \/ ~Truthy(question)
                     \/ options.t # "array"
                     \/ Len(options.v) # numOptions
                     \/ index.t # "number"
                     \/ index.v < 0
                     \/ index.v >= 2 * numOptions
             THEN Rejected("Error", "Invalid response structure", TRUE)
             ELSE IF ~HasElement(options.v, index) \/ ~CanTrim(Get(generatedData, "explanation"))
             THEN Rejected("Error", "TypeError", TRUE)
             ELSE LET newOptions == McqOptions(options.v, 0, count)
                  IN  Resolved(<<[question |-> question,
                                  options |-> newOptions,
                                  correctOptionId |-> newOptions[(index.v \div 2) + 1].id,
                                  topic |-> IF Truthy(Get(generatedData, "topic"))
                                            THEN Get(generatedData, "topic")
                                            ELSE Str(topic),
                                  explanation |->
                                      TrimOrUndefined(Get(generatedData, "explanation"))]>>)

-----------------------------------------------------------------------------
(* useFlashcards: the card store                                           *)

OptionalKeys == {"topic", "explanation", "sourcePdfName"}
CardKeys == {"id", "question", "options", "correctOptionId"} \cup OptionalKeys

\* a serialization that keeps the required properties only
StringifyRequired(card) ==
    [k \in {"id", "question", "options", "correctOptionId"} |-> card[k]]

\* JSON.stringify of a card drops the properties whose value is undefined;
\* reading a property the parsed object lacks gives undefined
StringifyCard(card) ==
    [k \in {"id", "question", "options", "correctOptionId"}
           \cup {o \in OptionalKeys : card[o] # Undefined} |-> card[k]]
ParseCard(text) ==
    [k \in CardKeys |-> IF k \in DOMAIN text THEN text[k] ELSE Undefined]

NoItem == [kind |-> "absent", cards |-> <<>>]
\* getItem throws; the text is not JSON; the text is JSON null; a JSON object
Unreadable == [kind |-> "unreadable", cards |-> <<>>]
Corrupt == [kind |-> "corrupt", cards |-> <<>>]
StoredNull == [kind |-> "null", cards |-> <<>>]
StoredObject == [kind |-> "object", cards |-> <<>>]
Stringify(cards) ==
    [kind |-> "array", cards |-> [k \in 1..Len(cards) |-> StringifyCard(cards[k])]]

\* the initializer of the flashcards state: the value it returns, which is
\* whatever JSON.parse gives when the item is a text that parses
LoadFlashcards(item) ==
    CASE item.kind = "array" ->
             Arr([k \in 1..Len(item.cards) |-> ParseCard(item.cards[k])])
      [] item.kind = "null" -> Null
      [] item.kind = "object" -> Obj(Undefined, Undefined, Undefined, Undefined, Undefined)
      [] OTHER -> Arr(<<>>)

\* The App renders: its first render calls flashcards.forEach and reads
\* flashcards.length, which throw when flashcards is not an array; nothing
\* catches the error, so the App is gone.
Renders(value) == value.t = "array"

\* an effect that stores nothing
SaveNothing(item, cards, writeOk) == item

\* an effect whose failed write removes the stored item
SaveOrRemove(item, cards, writeOk) == IF writeOk THEN Stringify(cards) ELSE NoItem

\* the effect on [flashcards]: localStorage.setItem in a try/catch
SaveEffect(item, cards, writeOk) == IF writeOk THEN Stringify(cards) ELSE item

\* the App starts on a stored item: the flashcards state, and the storage
\* and the number of writes after the mount effect (setItem in a try/catch)
Mount(item, writeOk) ==
    LET value == LoadFlashcards(item)
    IN  IF Renders(value)
        THEN [flashcards |-> value.v,
              storage |-> SaveEffect(item, value.v, writeOk),
              writes |-> 1]
        ELSE [flashcards |-> value, storage |-> item, writes |-> 0]

\* a card put at the front
AddFirst(prev, card) == <<card>> \o prev
\* a removal of the first card with the id only
RECURSIVE DeleteFirstOnly(_, _)
DeleteFirstOnly(prev, id) ==
    IF prev = <<>> THEN prev
    ELSE IF Head(prev).id = id THEN Tail(prev)
    ELSE <<Head(prev)>> \o DeleteFirstOnly(Tail(prev), id)

AddFlashcard(prev, card) == Append(prev, card)
UpdateFlashcard(prev, updatedCard) ==
    [k \in 1..Len(prev) |-> IF prev[k].id = updatedCard.id THEN updatedCard ELSE prev[k]]
DeleteFlashcardInternal(prev, id) ==
    LET Keep(card) == card.id # id IN SelectSeq(prev, Keep)

-----------------------------------------------------------------------------
(* FlashcardForm                                                           *)

\* Array.prototype.findIndex, 0-based, -1 when no element matches (the
\* form keeps -1 as null)
RECURSIVE FindIndexFrom(_, _, _)
FindIndexFrom(options, id, k) ==
    IF k > Len(options) THEN -1
    ELSE IF options[k].id = id THEN k - 1
    ELSE FindIndexFrom(options, id, k + 1)

NoCard == <<>>

\* the fields of the form: empty for a new card, the card's for an edit
\* (initial is <<>> or <<card>>)
FormFields(initial) ==
    IF initial = NoCard
    THEN [question |-> <<>>, options |-> <<<<>>, <<>>, <<>>, <<>>>>,
          correctOptionIndex |-> -1, topic |-> <<>>, explanation |-> <<>>]
    ELSE LET card == initial[1]
             texts == [j \in 1..Len(card.options) |-> card.options[j].text.v]
         IN  [question |-> card.question.v,
              options |-> SubSeq(texts \o <<<<>>, <<>>, <<>>, <<>>>>, 1, 4),
              correctOptionIndex |-> FindIndexFrom(card.options, card.correctOptionId, 1),
              topic |-> IF Truthy(card.topic) THEN card.topic.v ELSE <<>>,
              explanation |-> IF Truthy(card.explanation) THEN card.explanation.v ELSE <<>>]

\* a handleSubmit that does not look at the option texts
HandleSubmitAnyOptions(initial, fields, count) ==
    IF \/ Trim(fields.question) = <<>>
       \/ fields.correctOptionIndex = -1
    THEN [status |-> "error", card |-> NoCard]
    ELSE LET newMCQOptions ==
                 [j \in 1..Len(fields.options) |->
                     [id |-> IF initial # NoCard /\ j <= Len(initial[1].options)
                             THEN initial[1].options[j].id
                             ELSE RandomUUID(0, count, j),
                      text |-> Str(fields.options[j])]]
         IN  IF fields.correctOptionIndex >= Len(newMCQOptions)
             THEN [status |-> "TypeError", card |-> NoCard]
             ELSE [status |-> "saved",
                   card |-> <<[id |-> IF initial # NoCard THEN initial[1].id
                                      ELSE RandomUUID(0, count, 0),
                               question |-> Str(fields.question),
                               options |-> newMCQOptions,
                               correctOptionId |->
                                   newMCQOptions[fields.correctOptionIndex + 1].id,
                               topic |-> TrimOrUndefined(Str(fields.topic)),
                               explanation |-> TrimOrUndefined(Str(fields.explanation)),
                               sourcePdfName |-> IF initial # NoCard
                                                 THEN initial[1].sourcePdfName
                                                 ELSE Undefined]>>]

\* handleSubmit: "error" (the validation message), "TypeError" (the handler
\* throws) or "saved" with the card handed to onSave
HandleSubmit(initial, fields, count) ==
    IF \/ Trim(fields.question) = <<>>
       \/ \E j \in 1..Len(fields.options) : Trim(fields.options[j]) = <<>>
       \/ fields.correctOptionIndex = -1
    THEN [status |-> "error", card |-> NoCard]
    ELSE LET newMCQOptions ==
                 [j \in 1..Len(fields.options) |->
                     [id |-> IF initial # NoCard /\ j <= Len(initial[1].options)
                             THEN initial[1].options[j].id
                             ELSE RandomUUID(0, count, j),
                      text |-> Str(fields.options[j])]]
         IN  IF fields.correctOptionIndex >= Len(newMCQOptions)
             THEN [status |-> "TypeError", card |-> NoCard]
             ELSE [status |-> "saved",
                   card |-> <<[id |-> IF initial # NoCard THEN initial[1].id
                                      ELSE RandomUUID(0, count, 0),
                               question |-> Str(fields.question),
                               options |-> newMCQOptions,
                               correctOptionId |->
                                   newMCQOptions[fields.correctOptionIndex + 1].id,
                               topic |-> TrimOrUndefined(Str(fields.topic)),
                               explanation |-> TrimOrUndefined(Str(fields.explanation)),
                               sourcePdfName |-> IF initial # NoCard
                                                 THEN initial[1].sourcePdfName
                                                 ELSE Undefined]>>]

-----------------------------------------------------------------------------
(* Inputs                                                                  *)

Q == Str(<<"Q">>)
A == Str(<<"A">>)
B == Str(<<"B">>)
Blank == Str(<<>>)

Item(q, o, c) == Obj(q, o, c, Undefined, Undefined)

Items ==
    { Item(Q, Arr(<<A, B>>), Whole(0)),
      Obj(Q, Arr(<<A, B>>), Whole(1), Str(<<" ", "E", " ">>), Str(<<" ">>)),
      Item(Blank, Arr(<<A, B>>), Whole(0)),           \* empty question
      Null,                                           \* not an object
      Whole(7),                                       \* not an object
      Item(Whole(5), Arr(<<A, B>>), Whole(0)),        \* question is a number
      Item(Q, A, Whole(0)),                           \* options is a string
      Item(Q, Arr(<<A, Whole(1)>>), Whole(0)),        \* an option is a number
      Item(Q, Arr(<<A, B>>), Str(<<"0">>)),           \* index is a string
      Item(Q, Arr(<<A, B>>), Num(1)),                 \* index 0.5
      Item(Q, Arr(<<A, B>>), Whole(-1)),
      Item(Q, Arr(<<A, B>>), Whole(2)),
      Item(Q, Arr(<<A>>), Whole(0)),                  \* a single option
      Item(Q, Arr(<<Blank, B>>), Whole(1)),           \* an empty option text
      Obj(Q, Arr(<<A, B>>), Whole(0), Whole(3), Undefined) } \* explanation is a number

SeqsUpTo(S, n) == UNION {[1..m -> S] : m \in 0..n}

\* what the service may answer to a direct call of extractMCQsFromPDF
Responses ==
    {RequestError, GarbageText, JsonText(Null), JsonText(Item(Q, Arr(<<A, B>>), Whole(0)))}
        \cup {JsonText(Arr(s)) : s \in SeqsUpTo(Items, MaxItems)}

\* what it may answer to an import started through the App
ImportResponses ==
    { RequestError, GarbageText, JsonText(Arr(<<>>)),
      JsonText(Arr(<<Obj(Q, Arr(<<A, B>>), Whole(1), Str(<<" ", "E", " ">>), Str(<<" ">>))>>)),
      JsonText(Arr(<<Item(Q, Arr(<<A, B, A, B, A>>), Whole(4)),
                     Item(Blank, Arr(<<A, B>>), Whole(0)),
                     Item(Q, Arr(<<A>>), Whole(0))>>)) }

\* what it may answer to a single generation of 4 options
GenerateResponses ==
    { RequestError, GarbageText, JsonText(Null),
      JsonText(Item(Q, Arr(<<A, B, A, B>>), Whole(2))),
      JsonText(Item(Q, Arr(<<A, B, A>>), Whole(2))),
      JsonText(Item(Q, Arr(<<A, B, A, B>>), Whole(4))),
      JsonText(Item(Q, Arr(<<A, B, A, B>>), Num(3))) }

\* a response body wrapped in a fenced block: the opening marker with a
\* language tag or none, a line break, the body, a line break, the closing
\* marker
LanguageTags == {<<>>, <<"j">>}
Wrap(tag, body) == Fence \o tag \o <<"\n">> \o body \o <<"\n">> \o Fence

\* the response texts given to a direct call: every body of at most MaxText
\* characters, bare and fenced
TextChars == {Backtick, " ", "j", "1", "[", "]", ItemText}
Bodies == SeqsUpTo(TextChars, MaxText)
Texts == Bodies \cup {Wrap(tag, body) : tag \in LanguageTags, body \in Bodies}
TextResponses == {RawText(text) : text \in Texts}

\* what the service may answer to a direct call of generateMCQWithGemini:
\* objects with up to MaxOptions + 1 options and any index
OptionTexts(n) == [j \in 1..n |-> IF j % 2 = 1 THEN A ELSE B]
GenerateOneResponses ==
    GenerateResponses
        \cup { JsonText(Obj(q, Arr(OptionTexts(n)), c, e, Undefined)) :
                 q \in {Q, Blank}, n \in 0..(MaxOptions + 1),
                 c \in {Num(twice) : twice \in -2..(2 * MaxOptions + 2)} \cup {Str(<<"0">>)},
                 e \in {Undefined, Str(<<"E">>)} }

Files == {<<"a">>}

\* a card an earlier session left in storage
StoredCard ==
    [id |-> RandomUUID(0, 0, 0), question |-> Q,
     options |-> McqOptions(<<A, B, A, B>>, 0, 0),
     correctOptionId |-> RandomUUID(0, 0, 2),
     topic |-> Undefined, explanation |-> Str(<<"E">>), sourcePdfName |-> Str(<<"b">>)]

InitialItems == {NoItem, Stringify(<<StoredCard>>)}

\* what localStorage may hold when the store is used on its own: nothing, a
\* value that cannot be read or parsed, JSON that is not an array, and
\* arrays of cards, one of them with two cards of the same id
OlderCard ==
    [id |-> RandomUUID(0, -1, 0), question |-> Str(<<"P">>),
     options |-> McqOptions(<<A, B>>, 0, -1),
     correctOptionId |-> RandomUUID(0, -1, 1),
     topic |-> Str(<<"T">>), explanation |-> Undefined, sourcePdfName |-> Undefined]
StoredTwin == [StoredCard EXCEPT !.question = Str(<<"R">>)]
StoredItems ==
    { NoItem, Unreadable, Corrupt, StoredNull, StoredObject,
      Stringify(<<>>), Stringify(<<StoredCard>>),
      Stringify(<<StoredCard, OlderCard, StoredTwin>>) }

\* an id no card has, and the cards updateFlashcard may be called with, one
\* of them a stored card with its source name emptied
MissingId == RandomUUID(0, -2, 0)
UpdatedCards ==
    { [OlderCard EXCEPT !.question = Q],
      [StoredCard EXCEPT !.question = Str(<<"S">>)],
      [OlderCard EXCEPT !.id = MissingId],
      [StoredCard EXCEPT !.sourcePdfName = Blank] }

-----------------------------------------------------------------------------
(* App                                                                     *)

Message(type, text, file) == [type |-> type, text |-> text, file |-> file]
NoMessage == Message("none", "none", <<>>)

\* the UTF-16 code unit of a character of a file name
CodeUnit(c) == CASE c = "a" -> 97 [] c = "b" -> 98 [] OTHER -> 0

\* a < b for two strings in the order of Array.prototype.sort without a
\* comparator (by code units), which is also the order of localeCompare on
\* lower-case letters
RECURSIVE Before(_, _)
Before(a, b) ==
    IF b = <<>> THEN FALSE
    ELSE IF a = <<>> THEN TRUE
    ELSE IF CodeUnit(Head(a)) # CodeUnit(Head(b)) THEN CodeUnit(Head(a)) < CodeUnit(Head(b))
    ELSE Before(Tail(a), Tail(b))

\* names.sort()
RECURSIVE Sort(_)
Sort(names) ==
    IF names = <<>> THEN names
    ELSE LET rest == Sort(Tail(names))
             IsBefore(n) == Before(n, Head(names))
             NotBefore(n) == ~Before(n, Head(names))
         IN  SelectSeq(rest, IsBefore) \o <<Head(names)>> \o SelectSeq(rest, NotBefore)

\* a Set filled with the source name of every card, whatever it is
RECURSIVE SourcesOfAll(_, _)
SourcesOfAll(cards, sources) ==
    IF cards = <<>> THEN sources
    ELSE LET name == Head(cards).sourcePdfName
         IN  SourcesOfAll(Tail(cards),
                          IF name.t = "string" /\ \A j \in 1..Len(sources) : sources[j] # name.v
                          THEN Append(sources, name.v) ELSE sources)

\* flashcards.forEach(card => { if (card.sourcePdfName) sources.add(...) }):
\* the elements of the Set in the order of their insertion
RECURSIVE SourcesOf(_, _)
SourcesOf(cards, sources) ==
    IF cards = <<>> THEN sources
    ELSE LET name == Head(cards).sourcePdfName
         IN  SourcesOf(Tail(cards),
                       IF Truthy(name) /\ \A j \in 1..Len(sources) : sources[j] # name.v
                       THEN Append(sources, name.v) ELSE sources)

\* App's uniquePdfSources and LibraryView's pdfSources, recomputed by
\* useMemo in the render that follows a change of flashcards
UniquePdfSources(cards) == Sort(SourcesOf(cards, <<>>))
PdfSources(cards) == Sort(SourcesOf(cards, <<>>))

\* the part of the App an import handler reads and writes
AppState ==
    [flashcards |-> flashcards, storage |-> storage,
     controllerRef |-> controllerRef, isImportingPdf |-> isImportingPdf,
     processingMessage |-> processingMessage, appended |-> FALSE,
     writes |-> writes]

\* cards left as extracted
WithoutSource(cards, name) == cards
\* extractedCards.map(card => ({...card, sourcePdfName: file.name}))
WithSource(cards, name) ==
    [k \in 1..Len(cards) |-> [cards[k] EXCEPT !.sourcePdfName = Str(name)]]

\* an append to the collection the handler saw when it was called
ImportSettledStale(app, call, writeOk) ==
    LET newFlashcardsWithSource == WithSource(call.outcome.cards, call.file)
        tried ==
            IF call.outcome.kind = "resolved"
            THEN IF Aborted(call)
                 THEN [app EXCEPT !.processingMessage =
                                      Message("warning", "was cancelled", call.file)]
                 ELSE IF Len(call.outcome.cards) > 0
                 THEN [app EXCEPT
                         !.flashcards = call.seen \o newFlashcardsWithSource,
                         !.storage = SaveEffect(app.storage,
                                                call.seen \o newFlashcardsWithSource,
                                                writeOk),
                         !.writes = app.writes + 1,
                         !.appended = TRUE,
                         !.processingMessage =
                             Message("success", "Successfully imported", call.file)]
                 ELSE [app EXCEPT !.processingMessage =
                                      Message("info", "No MCQs found", call.file)]
            ELSE IF IsAbortError(call.outcome)
            THEN [app EXCEPT !.processingMessage =
                                 Message("warning", "was cancelled by user", call.file)]
            ELSE [app EXCEPT !.processingMessage =
                                 Message("error", call.outcome.error.message, call.file)]
    IN  [tried EXCEPT !.isImportingPdf = FALSE, !.controllerRef = 0]

\* handlePdfFileSelected from the settlement of its await to its end
ImportSettled(app, call, writeOk) ==
    LET newFlashcardsWithSource == WithSource(call.outcome.cards, call.file)
        tried ==
            IF call.outcome.kind = "resolved"
            THEN IF Aborted(call)
                 THEN [app EXCEPT !.processingMessage =
                                      Message("warning", "was cancelled", call.file)]
                 ELSE IF Len(call.outcome.cards) > 0
                 THEN [app EXCEPT
                         !.flashcards = app.flashcards \o newFlashcardsWithSource,
                         !.storage = SaveEffect(app.storage,
                                                app.flashcards \o newFlashcardsWithSource,
                                                writeOk),
                         !.writes = app.writes + 1,
                         !.appended = TRUE,
                         !.processingMessage =
                             Message("success", "Successfully imported", call.file)]
                 ELSE [app EXCEPT !.processingMessage =
                                      Message("info", "No MCQs found", call.file)]
            ELSE IF IsAbortError(call.outcome)
            THEN [app EXCEPT !.processingMessage =
                                 Message("warning", "was cancelled by user", call.file)]
            ELSE [app EXCEPT !.processingMessage =
                                 Message("error", call.outcome.error.message, call.file)]
    IN  [tried EXCEPT !.isImportingPdf = FALSE, !.controllerRef = 0]

\* the continuation of the caller of call i, if it has one and the call settled
Continue(app, before, after, writeOk) ==
    IF after.handled /\ before.pc # "done" /\ after.pc = "done"
    THEN ImportSettled(app, after, writeOk)
    ELSE app

SetApp(app) ==
    /\ flashcards' = app.flashcards
    /\ storage' = app.storage
    /\ controllerRef' = app.controllerRef
    /\ isImportingPdf' = app.isImportingPdf
    /\ processingMessage' = app.processingMessage
    /\ writes' = app.writes

\* handlePdfFileSelected(file) up to its await, and the continuation of the
\* import it aborted if that one was reading its file
HandlePdfFileSelected(file) ==
    /\ UNCHANGED ui
    /\ Len(calls) < MaxImports
    /\ UNCHANGED <<apiKey, generated, uuidCount, loaded>>
    /\ IF ~apiKey
       THEN /\ processingMessage' = Message("error", "PDF import requires an API key", <<>>)
            /\ UNCHANGED <<flashcards, storage, calls, controllerRef, isImportingPdf,
                            writes>>
       ELSE LET prev == controllerRef
                aborted == IF prev # 0
                           THEN [calls EXCEPT ![prev] = AbortSignalOf(calls[prev])]
                           ELSE calls
                new == ExtractEnter(NewCall(file, TRUE, FALSE, TRUE), apiKey)
                started == [AppState EXCEPT
                              !.controllerRef = Len(calls) + 1,
                              !.isImportingPdf = TRUE,
                              !.processingMessage = Message("info", "Processing", file)]
                afterPrev == IF prev # 0
                             THEN Continue(started, calls[prev], aborted[prev], TRUE)
                             ELSE started
                afterNew == Continue(afterPrev, NewCall(file, TRUE, FALSE, TRUE), new, TRUE)
            IN  /\ calls' = Append(aborted, new)
                /\ SetApp(afterNew)

\* handleCancelPdfImport, and the continuation of the import if it was
\* reading its file
HandleCancelPdfImport ==
    /\ UNCHANGED ui
    /\ controllerRef # 0
    /\ UNCHANGED <<apiKey, generated, uuidCount, loaded>>
    /\ LET i == controllerRef
           call == AbortSignalOf(calls[i])
           requested == [AppState EXCEPT !.processingMessage =
                            Message("warning", "PDF import cancellation requested", <<>>)]
       IN  /\ calls' = [calls EXCEPT ![i] = call]
           /\ SetApp(Continue(requested, calls[i], call, TRUE))

\* the FileReader of call i finishes
FileReadSettles(i, readOk) ==
    /\ UNCHANGED ui
    /\ calls[i].pc = "encoding"
    /\ UNCHANGED <<apiKey, generated, uuidCount, loaded>>
    /\ LET call == ExtractEncoded(calls[i], readOk)
       IN  /\ calls' = [calls EXCEPT ![i] = call]
           /\ SetApp(Continue(AppState, calls[i], call, TRUE))

\* the request of call i settles with a response text or a failure
RequestSettles(i, response, writeOk) ==
    /\ UNCHANGED ui
    /\ calls[i].pc = "request"
    /\ UNCHANGED <<apiKey, generated, uuidCount, loaded>>
    /\ LET call == ExtractResponded(calls[i], response, i)
           app == Continue(AppState, calls[i], call, writeOk)
       IN  /\ calls' = [calls EXCEPT ![i] = [call EXCEPT !.appended = app.appended]]
           /\ SetApp(app)

\* the banner's dismiss button, and every navigateTo: setProcessingMessage(null)
DismissMessage ==
    /\ UNCHANGED ui
    /\ processingMessage # NoMessage
    /\ processingMessage' = NoMessage
    /\ UNCHANGED <<apiKey, flashcards, storage, calls, controllerRef, isImportingPdf,
                   generated, uuidCount, loaded, writes>>

\* handleGenerateWithAI: the request of generateMCQWithGemini(topic, 4) settles
GenerateWithAI(response) ==
    /\ UNCHANGED ui
    /\ apiKey
    /\ Len(calls) + uuidCount < MaxOps
    /\ generated' = GenerateMCQ(apiKey, response, <<"T">>, 4, uuidCount + 1)
    /\ uuidCount' = uuidCount + 1
    /\ UNCHANGED <<apiKey, flashcards, storage, calls, controllerRef, isImportingPdf,
                   processingMessage, loaded, writes>>

\* what the user may have in the form when submitting a new card: typed
\* texts, or the fields handleGenerateWithAI filled in
TypedFields ==
    { [question |-> q, options |-> <<<<"A">>, o, <<"C">>, <<"D">>>>,
       correctOptionIndex |-> c, topic |-> <<>>, explanation |-> <<" ">>] :
      q \in {<<>>, <<"Q">>}, o \in {<<" ">>, <<"B">>}, c \in {-1, 0, 3} }
GeneratedFields ==
    IF generated.kind # "resolved" THEN {}
    ELSE LET data == generated.cards[1]
         IN  { [question |-> data.question.v,
                options |-> [j \in 1..Len(data.options) |-> data.options[j].text.v],
                correctOptionIndex |-> FindIndexFrom(data.options, data.correctOptionId, 1),
                topic |-> data.topic.v,
                explanation |-> IF Truthy(data.explanation)
                                THEN data.explanation.v ELSE <<>>] }

\* what the user may have in the form when submitting an edit of a card: the
\* card's fields, the empty options filled in or not, another answer or not
EditedFields(card) ==
    LET shown == FormFields(<<card>>)
    IN  { [shown EXCEPT
             !.options = [j \in 1..4 |-> IF fill /\ shown.options[j] = <<>>
                                         THEN <<"X">> ELSE shown.options[j]],
             !.correctOptionIndex = c] :
          fill \in BOOLEAN, c \in {shown.correctOptionIndex} \cup 0..3 }

\* the form's handleSubmit for a new card, then handleSaveFlashcard
SubmitCreate(fields, writeOk) ==
    /\ UNCHANGED ui
    /\ Len(calls) + uuidCount < MaxOps
    /\ LET result == HandleSubmit(NoCard, fields, uuidCount + 1)
       IN  /\ result.status # "error"
           /\ uuidCount' = uuidCount + 1
           /\ IF result.status = "saved"
              THEN /\ flashcards' = AddFlashcard(flashcards, result.card[1])
                   /\ storage' = SaveEffect(storage, flashcards', writeOk)
                   /\ writes' = writes + 1
                   /\ processingMessage' = NoMessage
              ELSE UNCHANGED <<flashcards, storage, writes, processingMessage>>
    /\ UNCHANGED <<apiKey, calls, controllerRef, isImportingPdf, generated, loaded>>

\* the form's handleSubmit for the edit of card k, then handleSaveFlashcard
SubmitEdit(k, fields, writeOk) ==
    /\ UNCHANGED ui
    /\ Len(calls) + uuidCount < MaxOps
    /\ LET result == HandleSubmit(<<flashcards[k]>>, fields, uuidCount + 1)
       IN  /\ result.status = "saved"
           /\ uuidCount' = uuidCount + 1
           /\ flashcards' = UpdateFlashcard(flashcards, result.card[1])
           /\ storage' = SaveEffect(storage, flashcards', writeOk)
           /\ writes' = writes + 1
           /\ processingMessage' = NoMessage
    /\ UNCHANGED <<apiKey, calls, controllerRef, isImportingPdf, generated, loaded>>

\* App.deleteFlashcard(id), called from the deck and the library views
DeleteFlashcard(id, writeOk) ==
    /\ UNCHANGED ui
    /\ flashcards' = DeleteFlashcardInternal(flashcards, id)
    /\ storage' = SaveEffect(storage, flashcards', writeOk)
    /\ writes' = writes + 1
    /\ processingMessage' = IF Len(flashcards) = 1 THEN NoMessage ELSE processingMessage
    /\ UNCHANGED <<apiKey, calls, controllerRef, isImportingPdf, generated, uuidCount,
                   loaded>>

-----------------------------------------------------------------------------
(* The views: navigation, FlashcardForm and DeckView                       *)

\* what no handler of a view changes
background == <<apiKey, calls, controllerRef, isImportingPdf, generated, loaded>>

\* FlashcardForm as first shown for initialCard: the useState values, then
\* the effect on [initialCard]; error is "none" (null) or the message
FormState(initial) == FormFields(initial) @@ [error |-> "none"]

\* the useState values of DeckView and of QuizMode; answers records the
\* selections handleOptionSelect went through with since initializeQuiz
NoDeck == [activePdfSource |-> Null, currentIndex |-> 0, isFlipped |-> FALSE]
NoQuiz ==
    [quizCards |-> <<>>, currentIndex |-> 0, selectedOptionId |-> Null, score |-> 0,
     showAnswer |-> FALSE, quizFinished |-> FALSE, answers |-> <<>>]

\* the App as first rendered: the home view
UiInit ==
    /\ currentView = "home"
    /\ cardToEdit = NoCard
    /\ form = FormState(NoCard)
    /\ deck = NoDeck
    /\ quiz = NoQuiz

\* navigateTo(view)
NavigateTo(view) ==
    /\ currentView' = view
    /\ cardToEdit' = IF view # "edit" THEN NoCard ELSE cardToEdit
    /\ processingMessage' = NoMessage

\* DeckView's displayedCards
DisplayedCards(d, cards) ==
    IF d.activePdfSource = Null THEN cards
    ELSE LET OfSource(card) == card.sourcePdfName = d.activePdfSource
         IN  SelectSeq(cards, OfSource)

\* the third effect of DeckView with nothing done when the index is past the
\* last card
NoClamp(now, displayed, cards) ==
    IF Len(displayed) = 0 /\ now.currentIndex > 0 THEN [currentIndex |-> 0]
    ELSE IF Len(displayed) = 0 /\ Len(cards) > 0 /\ now.activePdfSource # Null
    THEN [activePdfSource |-> Null]
    ELSE <<>>

\* the third effect of DeckView (35-44): the state it sets, read from the
\* values of the render it belongs to
Clamp(now, displayed, cards) ==
    IF Len(displayed) = 0 /\ now.currentIndex > 0 THEN [currentIndex |-> 0]
    ELSE IF now.currentIndex >= Len(displayed) /\ Len(displayed) > 0
    THEN [currentIndex |-> Len(displayed) - 1]
    ELSE IF Len(displayed) = 0 /\ Len(cards) > 0 /\ now.activePdfSource # Null
    THEN [activePdfSource |-> Null]
    ELSE <<>>

\* The effects of DeckView after one render: before and cardsBefore are the
\* values of the previous render (mount: there was none). Each effect runs
\* when one of its dependencies changed, reads the values of this render and
\* queues its updates; the updates are applied in the order queued.
DeckEffects(before, now, cardsBefore, cards, mount) ==
    LET sourceChanged == mount \/ before.activePdfSource # now.activePdfSource
        indexChanged == mount \/ before.currentIndex # now.currentIndex
        cardsChanged == mount \/ cardsBefore # cards
        first == IF sourceChanged
                 THEN [now EXCEPT !.currentIndex = 0, !.isFlipped = FALSE] ELSE now
        second == IF indexChanged \/ sourceChanged
                  THEN [first EXCEPT !.isFlipped = FALSE] ELSE first
        third == IF sourceChanged \/ indexChanged \/ cardsChanged
                 THEN Clamp(now, DisplayedCards(now, cards), cards) ELSE <<>>
    IN  [key \in DOMAIN second |-> IF key \in DOMAIN third THEN third[key] ELSE second[key]]

\* the state of DeckView once a render queues no update that changes it
RECURSIVE DeckSettled(_, _, _, _, _)
DeckSettled(before, now, cardsBefore, cards, mount) ==
    LET after == DeckEffects(before, now, cardsBefore, cards, mount)
    IN  IF after = now THEN now ELSE DeckSettled(now, after, cards, cards, FALSE)

\* a button of the home view: setView(view), and the view's component mounts
HomeButton(view) ==
    /\ currentView = "home"
    /\ ~isImportingPdf
    /\ view = "deck" => Len(flashcards) > 0
    /\ NavigateTo(view)
    /\ form' = FormState(NoCard)
    /\ deck' = IF view = "deck"
               THEN DeckSettled(NoDeck, NoDeck, flashcards, flashcards, TRUE) ELSE NoDeck
    /\ UNCHANGED <<background, flashcards, storage, writes, uuidCount, quiz>>

\* the header's back button and the form's cancel button: navigateTo('home')
Back ==
    /\ currentView # "home"
    /\ NavigateTo("home")
    /\ form' = FormState(NoCard)
    /\ deck' = NoDeck
    /\ quiz' = NoQuiz
    /\ UNCHANGED <<background, flashcards, storage, writes, uuidCount>>

\* DeckView shows a card, and with it the buttons of the card
DeckShowsCard ==
    /\ currentView = "deck"
    /\ Len(flashcards) > 0
    /\ deck.currentIndex < Len(DisplayedCards(deck, flashcards))
CurrentCard == DisplayedCards(deck, flashcards)[deck.currentIndex + 1]

\* a handler of DeckView sets its state to d, and the effects settle
DeckSets(d) ==
    /\ deck' = DeckSettled(deck, d, flashcards, flashcards, FALSE)
    /\ UNCHANGED <<background, flashcards, storage, writes, uuidCount, processingMessage,
                   currentView, cardToEdit, form, quiz>>

HandleNext ==
    /\ DeckShowsCard
    /\ DeckSets(IF deck.currentIndex < Len(DisplayedCards(deck, flashcards)) - 1
                THEN [deck EXCEPT !.currentIndex = @ + 1] ELSE deck)

HandlePrevious ==
    /\ DeckShowsCard
    /\ DeckSets(IF deck.currentIndex > 0 THEN [deck EXCEPT !.currentIndex = @ - 1] ELSE deck)

HandleFlip ==
    /\ DeckShowsCard
    /\ DeckSets([deck EXCEPT !.isFlipped = ~@])

\* a tab of DeckView: setActivePdfSource(source), null for "All Cards"
SetActivePdfSource(source) ==
    /\ currentView = "deck"
    /\ Len(flashcards) > 0
    /\ UniquePdfSources(flashcards) # <<>>
    /\ DeckSets([deck EXCEPT !.activePdfSource = source])

\* DeckView's handleEdit: handleSetCardToEdit(currentCard), navigateTo('edit')
DeckHandleEdit ==
    /\ DeckShowsCard
    /\ currentView' = "edit"
    /\ cardToEdit' = <<CurrentCard>>
    /\ processingMessage' = NoMessage
    /\ form' = FormState(<<CurrentCard>>)
    /\ deck' = NoDeck
    /\ UNCHANGED <<background, flashcards, storage, writes, uuidCount, quiz>>

\* DeckView's handleDelete, confirmed: App.deleteFlashcard(currentCard.id),
\* the effect of the store, the effect of App that leaves an empty deck, and
\* the effects of DeckView
DeckHandleDelete(writeOk) ==
    /\ DeckShowsCard
    /\ flashcards' = DeleteFlashcardInternal(flashcards, CurrentCard.id)
    /\ storage' = SaveEffect(storage, flashcards', writeOk)
    /\ writes' = writes + 1
    /\ IF Len(flashcards) = 1 \/ Len(flashcards') = 0
       THEN NavigateTo("home") /\ deck' = NoDeck
       ELSE /\ deck' = DeckSettled(deck, deck, flashcards, flashcards', FALSE)
            /\ UNCHANGED <<currentView, cardToEdit, processingMessage>>
    /\ UNCHANGED <<background, uuidCount, form, quiz>>

\* the form is shown
FormShown == currentView \in {"create", "edit"}

\* a change event of a field of the form
FormSets(f) ==
    /\ FormShown
    /\ form' = f
    /\ UNCHANGED <<background, flashcards, storage, writes, uuidCount, processingMessage,
                   currentView, cardToEdit, deck, quiz>>
SetQuestion(value) == FormSets([form EXCEPT !.question = value])
HandleOptionChange(index, value) == FormSets([form EXCEPT !.options[index + 1] = value])
SetCorrectOptionIndex(index) == FormSets([form EXCEPT !.correctOptionIndex = index])

\* the form is submitted: handleSubmit, and when it builds a card
\* handleSaveFlashcard, navigateTo('home') and the effect of the store
FormSubmitted(writeOk) ==
    /\ FormShown
    /\ LET initialCard == IF currentView = "edit" THEN cardToEdit ELSE NoCard
           result == HandleSubmit(initialCard, form, uuidCount + 1)
       IN  IF result.status = "error"
           THEN /\ form' = [form EXCEPT !.error = "Please fill in all fields"]
                /\ UNCHANGED <<flashcards, storage, writes, uuidCount, processingMessage,
                               currentView, cardToEdit>>
           ELSE IF result.status = "TypeError"
           THEN /\ form' = [form EXCEPT !.error = "none"]
                /\ uuidCount' = uuidCount + 1
                /\ UNCHANGED <<flashcards, storage, writes, processingMessage,
                               currentView, cardToEdit>>
           ELSE /\ flashcards' = IF currentView = "edit" /\ cardToEdit # NoCard
                                 THEN UpdateFlashcard(flashcards, result.card[1])
                                 ELSE AddFlashcard(flashcards, result.card[1])
                /\ storage' = SaveEffect(storage, flashcards', writeOk)
                /\ writes' = writes + 1
                /\ uuidCount' = uuidCount + 1
                /\ NavigateTo("home")
                /\ form' = FormState(NoCard)
    /\ UNCHANGED <<background, deck, quiz>>

\* [newArray[i], newArray[j]] = [newArray[j], newArray[i]], 0-based
Swap(array, i, j) ==
    [k \in 1..Len(array) |-> IF k = i + 1 THEN array[j + 1]
                             ELSE IF k = j + 1 THEN array[i + 1]
                             ELSE array[k]]

\* the loop of shuffleArray from index i down: every array it may return,
\* one for each value of Math.floor(Math.random() * (i + 1)) in each round
RECURSIVE ShuffleFrom(_, _)
ShuffleFrom(array, i) ==
    IF i <= 0 THEN {array}
    ELSE UNION {ShuffleFrom(Swap(array, i, j), i - 1) : j \in 0..i}

ShuffleArray(array) == ShuffleFrom(array, Len(array) - 1)

\* initializeQuiz, with the array shuffleArray returned
InitializeQuiz(quizCards) == [NoQuiz EXCEPT !.quizCards = quizCards]

\* a handleOptionSelect that does not look at showAnswer
OptionSelectedAgain(q, optionId) ==
    [q EXCEPT !.selectedOptionId = optionId,
              !.showAnswer = TRUE,
              !.score = IF optionId = q.quizCards[q.currentIndex + 1].correctOptionId
                        THEN @ + 1 ELSE @,
              !.answers = Append(@, [index |-> q.currentIndex, optionId |-> optionId])]

\* handleOptionSelect(optionId): the state of QuizMode it leaves
OptionSelected(q, optionId) ==
    IF q.showAnswer THEN q
    ELSE [q EXCEPT !.selectedOptionId = optionId,
                   !.showAnswer = TRUE,
                   !.score = IF optionId = q.quizCards[q.currentIndex + 1].correctOptionId
                             THEN @ + 1 ELSE @,
                   !.answers = Append(@, [index |-> q.currentIndex, optionId |-> optionId])]

\* the home view's quiz button: setView('quiz'); QuizMode mounts and its
\* effect calls initializeQuiz
StartQuiz(quizCards) ==
    /\ currentView = "home"
    /\ ~isImportingPdf
    /\ Len(flashcards) > 0
    /\ NavigateTo("quiz")
    /\ quiz' = InitializeQuiz(quizCards)
    /\ form' = FormState(NoCard)
    /\ deck' = NoDeck
    /\ UNCHANGED <<background, flashcards, storage, writes, uuidCount>>

\* QuizMode shows a question, and with it the buttons of its options
QuizShowsCard ==
    /\ currentView = "quiz"
    /\ ~quiz.quizFinished
    /\ quiz.currentIndex < Len(quiz.quizCards)

\* a handler of QuizMode sets its state to q
QuizSets(q) ==
    /\ quiz' = q
    /\ UNCHANGED <<background, flashcards, storage, writes, uuidCount, processingMessage,
                   currentView, cardToEdit, form, deck>>

HandleOptionSelect(optionId) ==
    /\ QuizShowsCard
    /\ QuizSets(OptionSelected(quiz, optionId))

\* the button under the answer
HandleNextQuestion ==
    /\ QuizShowsCard
    /\ quiz.showAnswer
    /\ QuizSets(IF quiz.currentIndex < Len(quiz.quizCards) - 1
                THEN [quiz EXCEPT !.currentIndex = @ + 1,
                                  !.selectedOptionId = Null,
                                  !.showAnswer = FALSE]
                ELSE [quiz EXCEPT !.quizFinished = TRUE])

\* the Restart Quiz button of the finished quiz: initializeQuiz
RestartQuiz(quizCards) ==
    /\ currentView = "quiz"
    /\ quiz.quizFinished
    /\ QuizSets(InitializeQuiz(quizCards))

\* cards an earlier session imported from the file a: one with five
\* options, one with two
FiveOptionCard ==
    WithSource(<<Promote(Item(Q, Arr(<<A, B, A, B, A>>), Whole(1)), 0, -3)>>, <<"a">>)[1]
TwoOptionCard ==
    WithSource(<<Promote(Item(Str(<<"P">>), Arr(<<A, B>>), Whole(0)), 0, -4)>>, <<"a">>)[1]

\* what localStorage may hold when the views are used
ViewItems ==
    { NoItem, Stringify(<<StoredCard, FiveOptionCard>>), Stringify(<<TwoOptionCard>>) }

-----------------------------------------------------------------------------
(* The App: the store loaded and saved once by the mount effect             *)

Init ==
    /\ apiKey \in BOOLEAN
    /\ UiInit
    /\ \E item \in InitialItems, writeOk \in BOOLEAN :
          /\ loaded = item
          /\ flashcards = Mount(item, writeOk).flashcards
          /\ storage = Mount(item, writeOk).storage
          /\ writes = Mount(item, writeOk).writes
    /\ calls = <<>>
    /\ controllerRef = 0
    /\ isImportingPdf = FALSE
    /\ processingMessage = NoMessage
    /\ generated = Pending
    /\ uuidCount = 0

\* the whole App, for a session of at most MaxOps imports and form operations
Next ==
    \/ \E file \in Files : Len(calls) + uuidCount < MaxOps /\ HandlePdfFileSelected(file)
    \/ HandleCancelPdfImport
    \/ \E i \in 1..Len(calls), readOk \in BOOLEAN : FileReadSettles(i, readOk)
    \/ \E i \in 1..Len(calls), response \in ImportResponses, writeOk \in BOOLEAN :
          RequestSettles(i, response, writeOk)
    \/ DismissMessage
    \/ \E response \in GenerateResponses : GenerateWithAI(response)
    \/ \E fields \in TypedFields \cup GeneratedFields, writeOk \in BOOLEAN :
          SubmitCreate(fields, writeOk)
    \/ \E k \in 1..Len(flashcards), writeOk \in BOOLEAN :
          \E fields \in EditedFields(flashcards[k]) : SubmitEdit(k, fields, writeOk)
    \/ \E k \in 1..Len(flashcards), writeOk \in BOOLEAN :
          DeleteFlashcard(flashcards[k].id, writeOk)

Spec == Init /\ [][Next]_vars

\* the imports of the App alone, up to MaxImports of them
ImportNext ==
    \/ \E file \in Files : HandlePdfFileSelected(file)
    \/ HandleCancelPdfImport
    \/ \E i \in 1..Len(calls), readOk \in BOOLEAN : FileReadSettles(i, readOk)
    \/ \E i \in 1..Len(calls), response \in ImportResponses :
          RequestSettles(i, response, TRUE)
    \/ DismissMessage

ImportSpec == Init /\ [][ImportNext]_vars

\* The FileReader always finishes; nothing makes the extraction service answer.
FairImportSpec ==
    ImportSpec
        /\ WF_vars(\E i \in 1..Len(calls), readOk \in BOOLEAN : FileReadSettles(i, readOk))

-----------------------------------------------------------------------------
(* extractMCQsFromPDF called on its own, with any signal and any client     *)

\* extractMCQsFromPDF(pdfFile, signal) is invoked
ExtractInvoked(i) ==
    /\ UNCHANGED ui
    /\ calls[i].pc = "called"
    /\ calls' = [calls EXCEPT ![i] = ExtractEnter(calls[i], apiKey)]
    /\ UNCHANGED <<apiKey, flashcards, storage, controllerRef, isImportingPdf,
                   processingMessage, generated, uuidCount, loaded, writes>>

\* the caller aborts the controller of the signal it passed
CallerAborts(i) ==
    /\ UNCHANGED ui
    /\ calls[i].pc \in {"encoding", "request"}
    /\ calls[i].hasSignal /\ ~calls[i].aborted
    /\ calls' = [calls EXCEPT ![i] = AbortSignalOf(calls[i])]
    /\ UNCHANGED <<apiKey, flashcards, storage, controllerRef, isImportingPdf,
                   processingMessage, generated, uuidCount, loaded, writes>>

ExtractInit ==
    /\ apiKey \in BOOLEAN
    /\ UiInit
    /\ flashcards = <<>>
    /\ storage = NoItem
    /\ \E hasSignal \in BOOLEAN, aborted \in BOOLEAN :
          /\ hasSignal \/ ~aborted
          /\ calls = <<NewCall(<<"a">>, hasSignal, aborted, FALSE)>>
    /\ controllerRef = 0
    /\ isImportingPdf = FALSE
    /\ processingMessage = NoMessage
    /\ generated = Pending
    /\ uuidCount = 0
    /\ loaded = NoItem
    /\ writes = 0

ExtractNext ==
    \/ \E i \in 1..Len(calls) : ExtractInvoked(i)
    \/ \E i \in 1..Len(calls) : CallerAborts(i)
    \/ \E i \in 1..Len(calls), readOk \in BOOLEAN : FileReadSettles(i, readOk)
    \/ \E i \in {j \in 1..Len(calls) : calls[j].pc = "request"} :
          \E response \in Responses \cup TextResponses : RequestSettles(i, response, TRUE)

ExtractSpec == ExtractInit /\ [][ExtractNext]_vars

-----------------------------------------------------------------------------
(* The store on its own: any stored value at the start, the operations of  *)
(* the hook, imports, and restarts of the page; every write succeeds       *)

\* the App rendered at the last start
Mounted == Renders(LoadFlashcards(loaded))

\* updateFlashcard(updatedCard), and the effect on [flashcards]
UpdateFlashcardCalled(updatedCard, writeOk) ==
    /\ UNCHANGED ui
    /\ flashcards' = UpdateFlashcard(flashcards, updatedCard)
    /\ storage' = SaveEffect(storage, flashcards', writeOk)
    /\ writes' = writes + 1
    /\ UNCHANGED <<apiKey, calls, controllerRef, isImportingPdf, processingMessage,
                   generated, uuidCount, loaded>>

\* the page is reloaded: the state of the App is lost, the imports under way
\* with it, and the App starts again on what localStorage holds
Reload(writeOk) ==
    /\ writes < MaxWrites
    /\ loaded' = storage
    /\ flashcards' = Mount(storage, writeOk).flashcards
    /\ storage' = Mount(storage, writeOk).storage
    /\ writes' = writes + Mount(storage, writeOk).writes
    /\ calls' = [i \in 1..Len(calls) |->
                    IF calls[i].pc = "done" THEN calls[i]
                    ELSE [calls[i] EXCEPT !.pc = "unloaded"]]
    /\ controllerRef' = 0
    /\ isImportingPdf' = FALSE
    /\ processingMessage' = NoMessage
    /\ generated' = Pending
    /\ currentView' = "home"
    /\ cardToEdit' = NoCard
    /\ form' = FormState(NoCard)
    /\ deck' = NoDeck
    /\ quiz' = NoQuiz
    /\ UNCHANGED <<apiKey, uuidCount>>

StoreInit ==
    /\ apiKey = TRUE
    /\ UiInit
    /\ \E item \in StoredItems :
          /\ loaded = item
          /\ flashcards = Mount(item, TRUE).flashcards
          /\ storage = Mount(item, TRUE).storage
          /\ writes = Mount(item, TRUE).writes
    /\ calls = <<>>
    /\ controllerRef = 0
    /\ isImportingPdf = FALSE
    /\ processingMessage = NoMessage
    /\ generated = Pending
    /\ uuidCount = 0

\* the store can be used, and the session is not over
Ready == Mounted /\ writes < MaxWrites

StoreNext ==
    \/ \E fields \in TypedFields : Ready /\ SubmitCreate(fields, TRUE)
    \/ \E k \in 1..(IF Ready THEN Len(flashcards) ELSE 0) :
          \E fields \in EditedFields(flashcards[k]) : SubmitEdit(k, fields, TRUE)
    \/ \E updatedCard \in UpdatedCards : Ready /\ UpdateFlashcardCalled(updatedCard, TRUE)
    \/ \E id \in {MissingId} \cup
                 {flashcards[k].id : k \in 1..(IF Ready THEN Len(flashcards) ELSE 0)} :
          Ready /\ DeleteFlashcard(id, TRUE)
    \/ \E file \in Files :
          Ready /\ Len(calls) + uuidCount < MaxOps /\ HandlePdfFileSelected(file)
    \/ \E i \in 1..Len(calls), readOk \in BOOLEAN : Ready /\ FileReadSettles(i, readOk)
    \/ \E i \in 1..Len(calls), response \in ImportResponses :
          Ready /\ RequestSettles(i, response, TRUE)
    \/ Reload(TRUE)

StoreSpec == StoreInit /\ [][StoreNext]_vars

-----------------------------------------------------------------------------
(* The form: cards created from the home view and edited from the deck      *)

\* what the user types into a field: a blank or a text for the question and
\* for the first option, a text for the other options
TypedQuestions == {<<" ">>, <<"Z">>}
TypedOptions == {<<" ">>, <<"X">>}

FormInit ==
    /\ apiKey = TRUE
    /\ UiInit
    /\ \E item \in ViewItems :
          /\ loaded = item
          /\ flashcards = Mount(item, TRUE).flashcards
          /\ storage = Mount(item, TRUE).storage
          /\ writes = Mount(item, TRUE).writes
    /\ calls = <<>>
    /\ controllerRef = 0
    /\ isImportingPdf = FALSE
    /\ processingMessage = NoMessage
    /\ generated = Pending
    /\ uuidCount = 0

\* the session is not over: the form has built fewer than MaxSaves cards
Open == uuidCount < MaxSaves

FormNext ==
    \/ \E view \in {"create", "deck"} : Open /\ HomeButton(view)
    \/ Open /\ Back
    \/ Open /\ HandleNext
    \/ Open /\ DeckHandleEdit
    \/ \E value \in TypedQuestions : Open /\ SetQuestion(value)
    \/ \E index \in 0..3, value \in TypedOptions :
          Open /\ (index = 0 \/ value = <<"X">>) /\ HandleOptionChange(index, value)
    \/ \E index \in {0, 3} : Open /\ SetCorrectOptionIndex(index)
    \/ Open /\ FormSubmitted(TRUE)

FormSpec == FormInit /\ [][FormNext]_vars

-----------------------------------------------------------------------------
(* The deck: a stored collection browsed, filtered by source and deleted    *)
(* from                                                                     *)

\* what localStorage may hold when the deck is used: cards of the sources
\* b, a, none and a, and a collection with two cards of one id
DeckItems ==
    { Stringify(<<StoredCard, FiveOptionCard, OlderCard, TwoOptionCard>>),
      Stringify(<<StoredCard, OlderCard, StoredTwin>>) }

DeckInit ==
    /\ apiKey = TRUE
    /\ UiInit
    /\ \E item \in DeckItems :
          /\ loaded = item
          /\ flashcards = Mount(item, TRUE).flashcards
          /\ storage = Mount(item, TRUE).storage
          /\ writes = Mount(item, TRUE).writes
    /\ calls = <<>>
    /\ controllerRef = 0
    /\ isImportingPdf = FALSE
    /\ processingMessage = NoMessage
    /\ generated = Pending
    /\ uuidCount = 0

\* the tabs DeckView renders: "All Cards" and one for each source
Tabs == {Null} \cup {Str(UniquePdfSources(flashcards)[j]) :
                        j \in 1..Len(UniquePdfSources(flashcards))}

DeckNext ==
    \/ HomeButton("deck")
    \/ Back
    \/ HandleNext
    \/ HandlePrevious
    \/ HandleFlip
    \/ \E source \in Tabs : SetActivePdfSource(source)
    \/ DeckHandleDelete(TRUE)

DeckSpec == DeckInit /\ [][DeckNext]_vars

-----------------------------------------------------------------------------
(* The quiz: a stored collection shuffled and answered                      *)

QuizItems ==
    { Stringify(<<StoredCard, OlderCard>>),
      Stringify(<<StoredCard, FiveOptionCard, OlderCard>>) }

QuizInit ==
    /\ apiKey = TRUE
    /\ UiInit
    /\ \E item \in QuizItems :
          /\ loaded = item
          /\ flashcards = Mount(item, TRUE).flashcards
          /\ storage = Mount(item, TRUE).storage
          /\ writes = Mount(item, TRUE).writes
    /\ calls = <<>>
    /\ controllerRef = 0
    /\ isImportingPdf = FALSE
    /\ processingMessage = NoMessage
    /\ generated = Pending
    /\ uuidCount = 0

\* the ids of the option buttons of the question shown
OptionIds ==
    LET options == quiz.quizCards[quiz.currentIndex + 1].options
    IN  {options[j].id : j \in 1..Len(options)}

QuizNext ==
    \/ \E quizCards \in ShuffleArray(flashcards) : StartQuiz(quizCards)
    \/ \E optionId \in (IF QuizShowsCard THEN OptionIds ELSE {}) :
          HandleOptionSelect(optionId)
    \/ HandleNextQuestion
    \/ \E quizCards \in ShuffleArray(flashcards) : RestartQuiz(quizCards)
    \/ Back

QuizSpec == QuizInit /\ [][QuizNext]_vars

-----------------------------------------------------------------------------
(* generateMCQWithGemini called on its own, with any number of options      *)

\* generateMCQWithGemini(topic, numOptions) is called and its request
\* settles; generated keeps the arguments and the response beside the result
GenerateOne(topic, numOptions, response) ==
    /\ UNCHANGED ui
    /\ uuidCount < MaxOps
    /\ generated' = GenerateMCQ(apiKey, response, topic, numOptions, uuidCount + 1)
                        @@ [topic |-> topic, numOptions |-> numOptions,
                            response |-> IF apiKey THEN response ELSE NoResponse]
    /\ uuidCount' = uuidCount + 1
    /\ UNCHANGED <<apiKey, flashcards, storage, calls, controllerRef, isImportingPdf,
                   processingMessage, loaded, writes>>

GenerateInit ==
    /\ apiKey \in BOOLEAN
    /\ UiInit
    /\ flashcards = <<>>
    /\ storage = NoItem
    /\ calls = <<>>
    /\ controllerRef = 0
    /\ isImportingPdf = FALSE
    /\ processingMessage = NoMessage
    /\ generated = Pending
    /\ uuidCount = 0
    /\ loaded = NoItem
    /\ writes = 0

GenerateNext ==
    \E numOptions \in 2..MaxOptions, response \in GenerateOneResponses :
        GenerateOne(<<"T">>, numOptions, response)

GenerateSpec == GenerateInit /\ [][GenerateNext]_vars

-----------------------------------------------------------------------------
(* Properties                                                              *)

CallIds == 1..Len(calls)
Done(i) == calls[i].pc = "done"
Cancelled(i) == Done(i) /\ IsAbortError(calls[i].outcome)

\* C1: an import whose signal was aborted never appends a card, and no step
\* of such an import changes the collection or the stored value, wherever
\* the abort fell (while the file was read or while the request was
\* outstanding).
C1_AbortedImportAppendsNothing ==
    [][\A i \in CallIds :
          (calls'[i].handled /\ calls'[i].aborted)
              => /\ ~calls'[i].appended
                 /\ (calls'[i] # calls[i]
                        => flashcards' = flashcards /\ storage' = storage)]_vars

\* an import was aborted while its request was outstanding and the service
\* then answered with cards that pass the validation: nothing was appended
C1_Witness ==
    \E i \in CallIds :
        /\ calls[i].handled /\ calls[i].abortedInRequest /\ Done(i)
        /\ calls[i].response.status = "json"
        /\ calls[i].response.value.t = "array"
        /\ \E k \in 1..Len(calls[i].response.value.v) :
              ItemCheck(calls[i].response.value.v[k]) = "pass"
        /\ ~calls[i].appended
        /\ flashcards = <<>>

\* C2: a call whose signal was aborted while its request was outstanding
\* fails with an AbortError however the request settles, and never reaches
\* JSON.parse.
C2_AbortDuringRequestCancels ==
    \A i \in CallIds :
        (calls[i].abortedInRequest /\ Done(i))
            => IsAbortError(calls[i].outcome) /\ ~calls[i].parsed

\* C3: once an import is aborted while its request is outstanding, it
\* eventually fails with an AbortError and isImportingPdf eventually becomes
\* false, whether or not the request ever settles.
C3_AbortedImportEnds ==
    \A i \in 1..MaxImports :
        (i \in CallIds /\ calls[i].abortedInRequest)
            ~> (i \in CallIds /\ Cancelled(i) /\ ~isImportingPdf)

\* C4: a call entered with its signal already aborted fails with an
\* AbortError without reading the file or issuing a request, whether or
\* not the client is configured.
C4_AbortedAtEntryCancels ==
    \A i \in CallIds :
        (calls[i].abortedAtEntry /\ calls[i].pc # "called")
            => /\ Cancelled(i)
               /\ ~calls[i].readStarted
               /\ ~calls[i].requested

\* C5: when an import starts, every earlier import still outstanding has
\* its signal aborted, an aborted import has appended nothing, and at most
\* one import whose signal is not aborted is outstanding.
InFlight(cs) == {i \in 1..Len(cs) : cs[i].pc # "done" /\ ~cs[i].aborted}
C5_OneLiveImport ==
    [][/\ \A i \in CallIds :
             (Len(calls') > Len(calls) /\ ~Done(i)) => calls'[i].aborted
       /\ \A i \in CallIds : calls'[i].aborted => ~calls'[i].appended
       /\ Cardinality(InFlight(calls')) <= 1]_vars

\* C6: a call that was never aborted and whose response parses to an array
\* resolves, whatever the elements of the array are.
C6_BadElementsAreSkipped ==
    \A i \in CallIds :
        (/\ Done(i) /\ ~calls[i].aborted
         /\ calls[i].response.status = "json"
         /\ calls[i].response.value.t = "array")
            => calls[i].outcome.kind = "resolved"

\* the record the specification accepts: question a non-empty string,
\* options an array of strings, correctOptionIndex an integer in range
WellFormed(item) ==
    /\ item.t = "object"
    /\ item.v.question.t = "string" /\ Len(item.v.question.v) > 0
    /\ item.v.options.t = "array"
    /\ \A j \in 1..Len(item.v.options.v) : item.v.options.v[j].t = "string"
    /\ item.v.correctOptionIndex.t = "number"
    /\ item.v.correctOptionIndex.v % 2 = 0
    /\ item.v.correctOptionIndex.v >= 0
    /\ item.v.correctOptionIndex.v \div 2 < Len(item.v.options.v)

\* a card and a well-formed item, without identifiers: the question, the
\* option texts and the 0-based position of the correct option
CardContent(card) ==
    [question |-> card.question,
     texts |-> [j \in 1..Len(card.options) |-> card.options[j].text],
     correct |-> FindIndexFrom(card.options, card.correctOptionId, 1)]
ItemContent(item) ==
    [question |-> item.v.question,
     texts |-> item.v.options.v,
     correct |-> item.v.correctOptionIndex.v \div 2]

ExpectedCards(items) ==
    LET kept == SelectSeq(items, WellFormed)
    IN  [k \in 1..Len(kept) |-> ItemContent(kept[k])]

\* C7: a call that resolves returns, in order, one card for each well-formed
\* element of the response and no other card.
C7_ResultIsFilterMap ==
    \A i \in CallIds :
        (Done(i) /\ calls[i].outcome.kind = "resolved")
            => [k \in 1..Len(calls[i].outcome.cards) |->
                    CardContent(calls[i].outcome.cards[k])]
               = ExpectedCards(calls[i].response.value.v)

OneCorrectOption(card) ==
    Cardinality({j \in 1..Len(card.options) :
                    card.options[j].id = card.correctOptionId}) = 1

\* the element of the response a card of call i was built from
SourceItem(i, card) == calls[i].response.value.v[card.id[2]]

\* C8: every card of the collection, every card a call of extractMCQsFromPDF
\* resolved with and the card of the last single generation has exactly one
\* option whose id is its correctOptionId; in a card of extractMCQsFromPDF
\* that option stands at correctOptionIndex of the source element and
\* carries its text.
C8_ExactlyOneCorrectOption ==
    /\ \A k \in 1..Len(flashcards) : OneCorrectOption(flashcards[k])
    /\ \A k \in 1..Len(generated.cards) : OneCorrectOption(generated.cards[k])
    /\ \A i \in CallIds : \A k \in 1..Len(calls[i].outcome.cards) :
          LET card == calls[i].outcome.cards[k]
              index == SourceItem(i, card).v.correctOptionIndex.v \div 2
          IN  /\ OneCorrectOption(card)
              /\ card.options[index + 1].id = card.correctOptionId
              /\ card.options[index + 1].text = SourceItem(i, card).v.options.v[index + 1]

\* the collection holds an imported card whose correct option is not its
\* first one, next to a card saved by the form
C8_Witness ==
    /\ \E k \in 1..Len(flashcards) :
          /\ flashcards[k].id[1] > 0
          /\ flashcards[k].correctOptionId # flashcards[k].options[1].id
    /\ \E k \in 1..Len(flashcards) :
          flashcards[k].id[1] = 0 /\ flashcards[k].question = Str(<<"Q">>)
                                  /\ flashcards[k].options[2].text = Str(<<"B">>)
                                  /\ flashcards[k].options[3].text = Str(<<"C">>)

\* C9: every card of the collection and every card a call of
\* extractMCQsFromPDF resolved with has at least two options.
C9_AtLeastTwoOptions ==
    /\ \A k \in 1..Len(flashcards) : Len(flashcards[k].options) >= 2
    /\ \A i \in CallIds : \A k \in 1..Len(calls[i].outcome.cards) :
          Len(calls[i].outcome.cards[k].options) >= 2

\* C10: every card a call of extractMCQsFromPDF resolved with has a
\* non-empty question and no option with an empty text.
C10_NoEmptyText ==
    \A i \in CallIds : \A k \in 1..Len(calls[i].outcome.cards) :
        LET card == calls[i].outcome.cards[k]
        IN  /\ Truthy(card.question)
            /\ \A j \in 1..Len(card.options) : card.options[j].text # Str(<<>>)

\* C11: a call that was not aborted fails with the JSON parse error exactly
\* when it received a text that, the fence stripped, JSON.parse rejects, and
\* with the "Expected an array" error exactly when the text parsed to a value
\* that is not an array; the two errors differ and neither comes with cards.
MalformedResponse(outcome) ==
    /\ outcome.kind = "rejected"
    /\ outcome.error.message = "invalid JSON format" /\ ~outcome.error.wrapped
UnexpectedShape(outcome) ==
    /\ outcome.kind = "rejected"
    /\ outcome.error.message = "Expected an array" /\ outcome.error.wrapped
C11_ResponseFailuresClassified ==
    \A i \in CallIds :
        (Done(i) /\ ~calls[i].aborted)
            => /\ MalformedResponse(calls[i].outcome)
                    <=> calls[i].response.status = "garbage"
               /\ UnexpectedShape(calls[i].outcome)
                    <=> (/\ calls[i].response.status = "json"
                         /\ calls[i].response.value.t # "array")
               /\ ~(MalformedResponse(calls[i].outcome) /\ UnexpectedShape(calls[i].outcome))
               /\ calls[i].outcome.kind = "rejected" => calls[i].outcome.cards = <<>>

\* a fenced text whose body is not JSON was rejected with the parse error
C11_Witness ==
    \E i \in CallIds :
        /\ Done(i) /\ ~calls[i].aborted
        /\ calls[i].response.status = "garbage"
        /\ "text" \in DOMAIN calls[i].response
        /\ calls[i].response.text = Wrap(<<"j">>, <<"j">>)
        /\ MalformedResponse(calls[i].outcome)

\* what call i would have settled with had the service sent text
OutcomeFor(i, text) ==
    ExtractResponded([calls[i] EXCEPT !.pc = "request", !.outcome = Pending,
                                      !.response = NoResponse, !.parsed = FALSE],
                     RawText(text), i).outcome

GotText(i) ==
    /\ Done(i) /\ ~calls[i].aborted
    /\ "text" \in DOMAIN calls[i].response

BeginsWithFence(text) == Len(text) >= 3 /\ SubSeq(text, 1, 3) = Fence

InvalidResult(outcome) ==
    /\ outcome.kind = "rejected"
    /\ outcome.error.message = "Invalid response structure"
C13_GenerateOneIsStrict ==
    ("response" \in DOMAIN generated /\ generated.response.status = "json")
        => LET data == generated.response.value
               options == Get(data, "options")
               index == Get(data, "correctOptionIndex")
               n == generated.numOptions
           IN  /\ (/\ data.t = "object" /\ options.t = "array"
                   /\ \/ Len(options.v) # n
                      \/ index.t = "number" /\ (index.v < 0 \/ index.v >= 2 * n))
                      => InvalidResult(generated)
               /\ generated.kind = "resolved"
                      => /\ Len(generated.cards[1].options) = n
                         /\ index.t = "number" /\ index.v % 2 = 0
                         /\ generated.cards[1].correctOptionId
                                = generated.cards[1].options[(index.v \div 2) + 1].id

\* generateMCQWithGemini(topic, 4) was answered with three options and failed
C13_Witness ==
    /\ "response" \in DOMAIN generated
    /\ generated.numOptions = 4
    /\ generated.response = JsonText(Item(Q, Arr(<<A, B, A>>), Whole(2)))
    /\ InvalidResult(generated)

\* the collection with its first card of the id of updatedCard replaced
RECURSIVE ReplaceFirst(_, _)
ReplaceFirst(cards, updatedCard) ==
    IF cards = <<>> THEN cards
    ELSE IF Head(cards).id = updatedCard.id THEN <<updatedCard>> \o Tail(cards)
    ELSE <<Head(cards)>> \o ReplaceFirst(Tail(cards), updatedCard)

\* C14: updateFlashcard(c) leaves the collection as it was but for the first
\* card whose id is that of c, which becomes c; a later card of that id, and
\* a collection with no card of that id, are unchanged.
C14_UpdateReplacesFirstOnly ==
    [][/\ \A updatedCard \in UpdatedCards :
             (Ready /\ UpdateFlashcardCalled(updatedCard, TRUE))
                 => flashcards' = ReplaceFirst(flashcards, updatedCard)
       /\ \A k \in 1..(IF Ready THEN Len(flashcards) ELSE 0) :
             \A fields \in EditedFields(flashcards[k]) :
                 SubmitEdit(k, fields, TRUE)
                     => flashcards' =
                            ReplaceFirst(flashcards,
                                HandleSubmit(<<flashcards[k]>>, fields, uuidCount + 1).card[1])
      ]_vars

\* the positions of the cards that do not have the id
KeptPositions(cards, id) == {k \in 1..Len(cards) : cards[k].id # id}

\* C15: deleteFlashcard(id) removes every card of that id and no other: the
\* cards left are the cards of another id, in the order they had, and a
\* collection with no card of that id is unchanged.
C15_DeleteRemovesMatchingOnly ==
    [][\A id \in {MissingId} \cup
                 {flashcards[k].id : k \in 1..(IF Ready THEN Len(flashcards) ELSE 0)} :
          (Ready /\ DeleteFlashcard(id, TRUE))
              => /\ Len(flashcards') = Cardinality(KeptPositions(flashcards, id))
                 /\ \A j \in 1..Len(flashcards') :
                       \E k \in KeptPositions(flashcards, id) :
                           /\ flashcards'[j] = flashcards[k]
                           /\ Cardinality({m \in KeptPositions(flashcards, id) : m < k}) = j - 1
                 /\ KeptPositions(flashcards, id) = 1..Len(flashcards)
                       => flashcards' = flashcards
      ]_vars

\* the two cards of one id of a stored collection were deleted in one
\* operation, and the card of another id was left
C15_Witness ==
    /\ loaded = Stringify(<<StoredCard, OlderCard, StoredTwin>>)
    /\ Mounted
    /\ writes = 2
    /\ flashcards = <<OlderCard>>

\* C16: the step in which an import appends leaves the collection as it was,
\* followed by every card the extraction returned, in the returned order,
\* each with the name of the file as its source and nothing else changed;
\* the collection changes in no other step of an import.
C16_BatchAppendedWhole ==
    [][/\ \A i \in CallIds :
             (calls'[i].appended /\ ~calls[i].appended)
                 => /\ Len(calls'[i].outcome.cards) > 0
                    /\ Len(flashcards') = Len(flashcards) + Len(calls'[i].outcome.cards)
                    /\ SubSeq(flashcards', 1, Len(flashcards)) = flashcards
                    /\ \A k \in 1..Len(calls'[i].outcome.cards) :
                          flashcards'[Len(flashcards) + k] =
                              [calls'[i].outcome.cards[k] EXCEPT
                                  !.sourcePdfName = Str(calls'[i].file)]
       /\ flashcards' # flashcards
             => \E i \in CallIds : calls'[i].appended /\ ~calls[i].appended
      ]_vars

\* an import appended the two cards its extraction returned after the card
\* that was in the collection
C16_Witness ==
    \E i \in CallIds :
        /\ calls[i].appended
        /\ Len(calls[i].outcome.cards) = 2
        /\ Len(flashcards) = 3
        /\ flashcards[1].sourcePdfName = Str(<<"b">>)
        /\ flashcards[2].sourcePdfName = Str(calls[i].file)
        /\ flashcards[3].id = calls[i].outcome.cards[2].id

\* a step that applies one operation of the store: a create, an update, a
\* delete, or the append of the cards of an import
StoreOperation ==
    /\ Ready
    /\ \/ \E fields \in TypedFields :
             /\ HandleSubmit(NoCard, fields, uuidCount + 1).status = "saved"
             /\ SubmitCreate(fields, TRUE)
       \/ \E k \in 1..Len(flashcards) :
             \E fields \in EditedFields(flashcards[k]) : SubmitEdit(k, fields, TRUE)
       \/ \E updatedCard \in UpdatedCards : UpdateFlashcardCalled(updatedCard, TRUE)
       \/ \E id \in {MissingId} \cup {flashcards[k].id : k \in 1..Len(flashcards)} :
             DeleteFlashcard(id, TRUE)
       \/ \E i \in CallIds : calls'[i].appended /\ ~calls[i].appended

\* C17: a step that applies an operation of the store calls setItem once,
\* with the whole collection the operation left, whether it appended one
\* card, several or none; setItem is called in no other step but a start of
\* the App.
C17_OneWritePerOperation ==
    [][/\ StoreOperation
             => /\ writes' = writes + 1
                /\ storage' = Stringify(flashcards')
       /\ writes' # writes => StoreOperation \/ Reload(TRUE)
      ]_vars

\* an import appended two cards and setItem was called once for them
C17_Witness ==
    /\ Mounted
    /\ loaded = NoItem
    /\ writes = 2
    /\ Len(flashcards) = 2
    /\ \E i \in CallIds : calls[i].appended /\ Len(calls[i].outcome.cards) = 2
    /\ storage = Stringify(flashcards)

\* C18: while the App runs and every write succeeded, what localStorage
\* holds parses to the collection in memory.
C18_StorageMirrorsCollection ==
    Mounted => LoadFlashcards(storage) = Arr(flashcards)

\* two operations were applied to a stored collection, one of them on a card
\* with optional fields that are undefined
C18_Witness ==
    /\ Mounted
    /\ loaded = Stringify(<<StoredCard>>)
    /\ writes = 3
    /\ Len(flashcards) = 2
    /\ flashcards[1].question = Str(<<"S">>)
    /\ flashcards[2].id = RandomUUID(0, 1, 0)
    /\ flashcards[2].topic = Undefined
    /\ LoadFlashcards(storage) = Arr(flashcards)

\* C19: a create puts the card after the cards of the collection, and a
\* start of the App on what was stored gives the collection the App had:
\* the created card with every field, the earlier cards in their order, and
\* the same collection again at the next start.
C19_CreateThenLoad ==
    [][/\ \A fields \in TypedFields :
             (/\ Ready
              /\ HandleSubmit(NoCard, fields, uuidCount + 1).status = "saved"
              /\ SubmitCreate(fields, TRUE))
                 => flashcards' =
                        Append(flashcards,
                               HandleSubmit(NoCard, fields, uuidCount + 1).card[1])
       /\ Reload(TRUE) => flashcards' = flashcards
      ]_vars

\* the App was started again after a create and has the created card after
\* the stored one
C19_Witness ==
    /\ Mounted
    /\ loaded.kind = "array"
    /\ Len(loaded.cards) = 2
    /\ loaded.cards[2].id = RandomUUID(0, 1, 0)
    /\ Len(flashcards) = 2
    /\ flashcards[1] = StoredCard
    /\ flashcards[2].id = RandomUUID(0, 1, 0)
    /\ flashcards[2].explanation = Undefined

\* C20: whatever localStorage held at the start, the initializer returned an
\* array, and the empty one unless the stored value was an array.
C20_LoadGivesSequence ==
    /\ LoadFlashcards(loaded).t = "array"
    /\ loaded.kind # "array" => LoadFlashcards(loaded).v = <<>>

\* C21: a write that fails is absorbed: the step that attempted it leaves the
\* collection the operation produced from the collection in memory, the
\* handler ends as it does when the write succeeds, and localStorage keeps
\* what it held; a write that succeeds stores the whole collection in
\* memory, the cards of earlier failed writes included.
C21_FailedWriteIsAbsorbed ==
    [][/\ writes' = writes + 1 => storage' \in {storage, Stringify(flashcards')}
       /\ \A fields \in TypedFields \cup GeneratedFields :
             (/\ HandleSubmit(NoCard, fields, uuidCount + 1).status = "saved"
              /\ SubmitCreate(fields, FALSE))
                 => /\ flashcards' =
                           AddFlashcard(flashcards,
                                        HandleSubmit(NoCard, fields, uuidCount + 1).card[1])
                    /\ storage' = storage
                    /\ processingMessage' = NoMessage
       /\ \A k \in 1..Len(flashcards) :
             /\ \A fields \in EditedFields(flashcards[k]) :
                   SubmitEdit(k, fields, FALSE)
                       => /\ flashcards' =
                                 UpdateFlashcard(flashcards,
                                     HandleSubmit(<<flashcards[k]>>, fields,
                                                  uuidCount + 1).card[1])
                          /\ storage' = storage
             /\ DeleteFlashcard(flashcards[k].id, FALSE)
                   => /\ flashcards' = DeleteFlashcardInternal(flashcards, flashcards[k].id)
                      /\ storage' = storage
       /\ \A i \in CallIds :
             (/\ calls'[i].appended /\ ~calls[i].appended
              /\ storage' # Stringify(flashcards'))
                 => /\ flashcards' =
                           flashcards \o WithSource(calls'[i].outcome.cards, calls[i].file)
                    /\ storage' = storage
                    /\ processingMessage'.type = "success"
                    /\ ~isImportingPdf'
      ]_vars

\* a card was created on top of a stored one while its write failed: the
\* collection in memory has it and localStorage has the stored card alone
C21_Witness ==
    /\ loaded = Stringify(<<StoredCard>>)
    /\ Len(flashcards) = 2
    /\ flashcards[1] = StoredCard
    /\ flashcards[2].id = RandomUUID(0, 1, 0)
    /\ writes = 2
    /\ storage = Stringify(<<StoredCard>>)

\* the source names of the cards that have one that is not empty
NamedSources(cards) ==
    {cards[k].sourcePdfName.v :
        k \in {j \in 1..Len(cards) : /\ cards[j].sourcePdfName.t = "string"
                                     /\ cards[j].sourcePdfName.v # <<>>}}

\* C22: in every state the source index the views are given holds each
\* non-empty source name of the collection once and nothing else, so a name
\* is in it from the step that appends a card with it to the step that
\* deletes or re-tags the last card with it.
C22_SourceIndexIsDerived ==
    Mounted =>
        /\ {UniquePdfSources(flashcards)[j] : j \in 1..Len(UniquePdfSources(flashcards))}
               = NamedSources(flashcards)
        /\ Len(UniquePdfSources(flashcards)) = Cardinality(NamedSources(flashcards))
        /\ PdfSources(flashcards) = UniquePdfSources(flashcards)

\* the stored card of source b was re-tagged with the empty name and an
\* import of file a appended cards: the index holds a alone
C22_Witness ==
    /\ Mounted
    /\ loaded = Stringify(<<StoredCard>>)
    /\ Len(flashcards) >= 2
    /\ flashcards[1].sourcePdfName = Blank
    /\ flashcards[2].sourcePdfName = Str(<<"a">>)
    /\ UniquePdfSources(flashcards) = <<<<"a">>>>

\* C23: the step that aborts the signal of a call that is reading its file
\* ends the call with an AbortError, not with the file-read error, and with
\* no request issued; a call that ended issues none later.
C23_AbortWhileEncodingCancels ==
    [][\A i \in CallIds :
          /\ (calls[i].pc = "encoding" /\ calls'[i].aborted /\ ~calls[i].aborted)
                => /\ calls'[i].pc = "done"
                   /\ IsAbortError(calls'[i].outcome)
                   /\ calls'[i].outcome.error.message # "Failed to read PDF file"
                   /\ ~calls'[i].requested
          /\ calls[i].pc = "done"
                => calls'[i].pc = "done" /\ calls'[i].requested = calls[i].requested
      ]_vars

\* a call whose signal was aborted while it was reading its file ended
\* cancelled by the read
C23_Witness ==
    \E i \in CallIds :
        /\ calls[i].hasSignal /\ calls[i].aborted
        /\ ~calls[i].abortedAtEntry /\ ~calls[i].abortedInRequest
        /\ calls[i].readStarted /\ ~calls[i].requested
        /\ calls[i].pc = "done"
        /\ calls[i].outcome = AbortError("Aborted")

\* the question and every option of the form have a text that is not blank,
\* and a correct option is selected
Filled(f) ==
    /\ \E j \in 1..Len(f.question) : ~IsSpace(f.question[j])
    /\ \A k \in 1..Len(f.options) : \E j \in 1..Len(f.options[k]) : ~IsSpace(f.options[k][j])
    /\ f.correctOptionIndex # -1

\* C24: while the form is shown the collection changes only when the form
\* is submitted filled in; a submission of a form that is not filled in
\* shows the error and leaves the collection, localStorage and the view as
\* they were.
C24_SubmitValidates ==
    [][/\ (FormShown /\ flashcards' # flashcards) => Filled(form)
       /\ (Open /\ FormSubmitted(TRUE) /\ ~Filled(form))
             => /\ form'.error # "none"
                /\ flashcards' = flashcards
                /\ storage' = storage
                /\ writes' = writes
                /\ currentView' = currentView
                /\ cardToEdit' = cardToEdit
      ]_vars

\* the create form was submitted with a question, a correct option and a
\* first option of one space: the error is shown, the form is still there
\* and nothing was stored
C24_Witness ==
    /\ currentView = "create"
    /\ form.error # "none"
    /\ form.question = <<"Z">>
    /\ form.options = <<<<" ">>, <<"X">>, <<"X">>, <<"X">>>>
    /\ form.correctOptionIndex = 3
    /\ storage = Mount(loaded, TRUE).storage
    /\ writes = 1

\* C25: while an import is outstanding and its signal is not aborted,
\* isImportingPdf is true and pdfImportAbortControllerRef holds the
\* controller of that import, whatever an earlier import did when it ended.
C25_LiveImportOwnsController ==
    \A i \in InFlight(calls) : isImportingPdf /\ controllerRef = i

\* C26: after a start of the App on a stored value and before any operation
\* of the store, localStorage holds what it held before the start, a value
\* that does not parse included.
C26_StartupKeepsStorage ==
    (writes <= 1 /\ loaded.kind \notin {"absent", "unreadable"}) => storage = loaded

\* C27: a submission of the edit form with the fields as they were first
\* shown for the card leaves the collection as it was, whatever the number
\* of options of the card.
C27_UnchangedEditKeepsCard ==
    [][(/\ Open
        /\ currentView = "edit"
        /\ form = FormState(cardToEdit)
        /\ FormSubmitted(TRUE))
           => flashcards' = flashcards
      ]_vars

\* C28: the step in which an import appends leaves the collection of that
\* moment, with every create, update and delete applied since the import was
\* started, followed by the cards of the import; localStorage is given that
\* collection.
C28_AppendKeepsLaterOperations ==
    [][\A i \in CallIds :
          (calls'[i].appended /\ ~calls[i].appended)
              => /\ flashcards' =
                        flashcards \o WithSource(calls'[i].outcome.cards, calls[i].file)
                 /\ storage' \in {storage, Stringify(flashcards')}
      ]_vars

\* an import started on an empty collection appended its card after a card
\* that was created while the import was outstanding
C28_Witness ==
    \E i \in CallIds :
        /\ calls[i].appended
        /\ calls[i].seen = <<>>
        /\ Len(calls[i].outcome.cards) = 1
        /\ Len(flashcards) = 2
        /\ flashcards[1].id = RandomUUID(0, 1, 0)
        /\ flashcards[2].id = calls[i].outcome.cards[1].id

\* C29: while the deck is shown, after every handler of DeckView and the
\* effects that follow it, the index is one of the displayed cards when
\* there are any, and the active tab is "All Cards" or the source of a card
\* of the collection.
C29_DeckIndexAndTabInRange ==
    currentView = "deck" =>
        /\ Len(DisplayedCards(deck, flashcards)) > 0
              => /\ 0 <= deck.currentIndex
                 /\ deck.currentIndex < Len(DisplayedCards(deck, flashcards))
        /\ Len(flashcards) > 0
              => \/ deck.activePdfSource = Null
                 \/ \E k \in 1..Len(flashcards) :
                       flashcards[k].sourcePdfName = deck.activePdfSource

\* the second card of source a was deleted while it was shown under the tab
\* of a: the tab is still that of a and the index is that of the card left
C29_Witness ==
    /\ currentView = "deck"
    /\ Len(loaded.cards) = 4
    /\ flashcards = <<StoredCard, FiveOptionCard, OlderCard>>
    /\ deck.activePdfSource = Str(<<"a">>)
    /\ deck.currentIndex = 0

\* the questions answered correctly, by the record of the selections
CorrectAnswers ==
    {a \in 1..Len(quiz.answers) :
        quiz.answers[a].optionId = quiz.quizCards[quiz.answers[a].index + 1].correctOptionId}

\* one array holds the elements of the other, each as many times
IsPermutation(one, other) ==
    /\ Len(one) = Len(other)
    /\ \E p \in [1..Len(one) -> 1..Len(one)] :
          /\ \A j, k \in 1..Len(one) : p[j] = p[k] => j = k
          /\ \A k \in 1..Len(one) : one[k] = other[p[k]]

\* C30: while the quiz is shown its cards are the cards of the collection in
\* some order, no question has two selections, the score is the number of
\* selections that are the correct option of their card, between 0 and
\* currentIndex + 1, which is at most the number of cards, and the quiz is
\* finished only on the last question with every question answered.
C30_QuizIsConsistent ==
    currentView = "quiz" =>
        /\ IsPermutation(quiz.quizCards, flashcards)
        /\ \A a, b \in 1..Len(quiz.answers) :
              quiz.answers[a].index = quiz.answers[b].index => a = b
        /\ quiz.score = Cardinality(CorrectAnswers)
        /\ 0 <= quiz.score
        /\ quiz.score <= quiz.currentIndex + 1
        /\ quiz.currentIndex + 1 <= Len(quiz.quizCards)
        /\ quiz.quizFinished
              => /\ quiz.currentIndex = Len(quiz.quizCards) - 1
                 /\ quiz.showAnswer
                 /\ Len(quiz.answers) = Len(quiz.quizCards)

\* a quiz of three cards in another order than the collection's is finished
\* with two correct answers and a wrong one
C30_Witness ==
    /\ currentView = "quiz"
    /\ quiz.quizFinished
    /\ Len(quiz.quizCards) = 3
    /\ quiz.quizCards # flashcards
    /\ quiz.score = 2
    /\ Len(quiz.answers) = 3

====
